---- MODULE Spec2Model ----
(***************************************************************************)
(* Verification model of uplink-server's transports.                       *)
(*                                                                         *)
(*  Part I   Simple Socket Variant: UplinkPtyClient / UplinkFsClient       *)
(*           ([1 byte tag][4 byte length BE][payload] over a Unix socket). *)
(*  Part II  Persistent Session Protocol (PersistentProtocol) with the     *)
(*           channel layer's pending calls on top of it.                   *)
(*                                                                         *)
(*  Part III Sessions: the server's token-to-session map, physical         *)
(*           connections, grace, and the calls pending on a session.       *)
(*                                                                         *)
(*  Part IV  The host side of the sidecars: UplinkPtyService, the shared   *)
(*           client of UplinkTerminalProcess, UplinkFileSystemProvider,    *)
(*           UplinkSessionFileWatcher and startUplinkPty.                  *)
(*                                                                         *)
(* The parts share the variable list; each has its own initial state,      *)
(* next-state relation and specification (SpecClient, SpecProto,           *)
(* SpecSession).                                                           *)
(***************************************************************************)
EXTENDS Integers, Sequences, FiniteSets, TLC

VARIABLES
    \* ---- Part I: one UplinkPtyClient / UplinkFsClient instance ----
    kind,        \* "pty" | "fs": which client class this instance is
    socket,      \* this.socket: "null" | "set"
    sockState,   \* the net.Socket behind it: "none" | "connecting" | "open" | "destroyed" | "closed"
    buffer,      \* this.buffer: bytes received and not yet framed
    nextId,      \* this.nextId
    pending,     \* this.pending: request id -> promise handle
    promises,    \* the promises handed to callers, by handle (creation order)
    emitted,     \* events the client emitted to its listeners, in order
    srvIn,       \* requests the sidecar has read and not yet answered
    wire,        \* bytes the sidecar wrote that the client has not read yet
    written,     \* the frames the sidecar wrote, in order
    dispatched,  \* the frames handleData passed to handleMessage, in order
    listeners,   \* event class -> the listeners registered with on()
    terminals,   \* UplinkPtyService._terminals, as the terminal ids it holds
    fired,       \* what UplinkPtyService fired on onProcessData, in order
    \* ---- Part II: PersistentProtocol endpoints ----
    proto,       \* side -> the PersistentProtocol instance of that side
    ipc,         \* a ChannelClient and the ChannelServer it talks to
    ser,         \* one value on its way through serialize() and deserialize()
    link,        \* the socket between two PersistentProtocol endpoints
    hs,          \* the server's handshakes on freshly upgraded connections
    ready,       \* the onProcessReady events UplinkPtyService has fired
    \* ---- Part III: sessions over physical connections ----
    conns,       \* socket -> the server's view of that physical connection
    net,         \* socket -> envelopes in flight on it, per direction
    managementConnections,   \* this._managementConnections: token -> session
    allReconnectionTokens,   \* this._allReconnectionTokens
    chan,        \* the client of session 1: its connection and ChannelClient
    srv,         \* the ChannelServer of session 1
    \* ---- Part IV: the host side of the sidecars ----
    service,     \* one UplinkPtyService, its clients and the calls made on it
    shared,      \* the module-level shared client of uplinkTerminalProcess.ts
    provider,    \* one UplinkFileSystemProvider, its connection and watches
    watcher,     \* one UplinkSessionFileWatcher and the provider under it
    boot         \* one call of startUplinkPty and the child it spawned

cvars ==
    <<kind, socket, sockState, buffer, nextId, pending, promises, emitted, srvIn, wire,
      written, dispatched, listeners, terminals, fired>>

wvars == <<proto, ipc, ser, link, hs, ready>>

hvars == <<service, shared, provider, watcher, boot>>

pvars == <<wvars, hvars>>

svars == <<conns, net, managementConnections, allReconnectionTokens, chan, srv>>

vars == <<cvars, pvars, svars>>

(***************************************************************************)
(* Bounds                                                                  *)
(***************************************************************************)
MaxCalls == 2
MaxMsgs == 2
MaxPeerMsgs == 3
MaxSockets == 2
MaxPush == 2           \* push frames the sidecar writes
MaxStray == 1          \* frames the sidecar writes for an id that awaits no answer
MaxListeners == 2      \* listeners registered per event class
MaxServiceCalls == 1   \* requests a service makes while events are pushed
MaxUnknown == 1        \* frames the sidecar writes with a tag the client does not know

(***************************************************************************)
(* Part I. Message tags                                                    *)
(***************************************************************************)
PTY_MSG_CREATE == 1
PTY_MSG_INPUT == 2
PTY_MSG_CREATED == 10
PTY_MSG_OK == 11
PTY_MSG_ERROR == 12
PTY_MSG_DATA == 20
PTY_MSG_EXIT == 21

FS_MSG_STAT == 1
FS_MSG_MKDIR == 8
FS_MSG_OK == 20
FS_MSG_ERROR == 21
FS_MSG_STAT_RESULT == 22
FS_MSG_DATA == 23
FS_MSG_DIR_ENTRIES == 24
FS_MSG_REALPATH_RESULT == 25
FS_MSG_FILE_CHANGE == 30
FS_MSG_WATCH_ERROR == 31

Kinds == {"pty", "fs"}

\* Tags on which handleMessage resolves the pending request.
ResolveTags(k) ==
    IF k = "pty" THEN {PTY_MSG_CREATED, PTY_MSG_OK}
    ELSE {FS_MSG_OK, FS_MSG_STAT_RESULT, FS_MSG_DATA, FS_MSG_DIR_ENTRIES, FS_MSG_REALPATH_RESULT}

ErrorTag(k) == IF k = "pty" THEN PTY_MSG_ERROR ELSE FS_MSG_ERROR

\* Push tags and the event each one is emitted as.
PushTags(k) ==
    IF k = "pty" THEN {PTY_MSG_DATA, PTY_MSG_EXIT} ELSE {FS_MSG_FILE_CHANGE, FS_MSG_WATCH_ERROR}

EventName(tag) ==
    CASE tag = PTY_MSG_DATA -> "data"
      [] tag = PTY_MSG_EXIT -> "exit"
      [] tag = FS_MSG_FILE_CHANGE -> "fileChange"
      [] tag = FS_MSG_WATCH_ERROR -> "watchError"
      [] OTHER -> "none"

\* Request tags the callers use, and the tag the sidecar answers each with.
RequestTags(k) ==
    IF k = "pty" THEN {PTY_MSG_CREATE, PTY_MSG_INPUT}   \* resize and kill go the way of input
    ELSE {FS_MSG_STAT, FS_MSG_MKDIR}

ResponseTag(k, reqTag) ==
    IF k = "pty" THEN (IF reqTag = PTY_MSG_CREATE THEN PTY_MSG_CREATED ELSE PTY_MSG_OK)
    ELSE (IF reqTag = FS_MSG_STAT THEN FS_MSG_STAT_RESULT ELSE FS_MSG_OK)

(***************************************************************************)
(* Part I. Framing                                                         *)
(***************************************************************************)
Byte == 256

\* header.writeUInt32BE(payload.length, 1)
writeUInt32BE(n) ==
    << (n \div (Byte * Byte * Byte)) % Byte, (n \div (Byte * Byte)) % Byte,
       (n \div Byte) % Byte, n % Byte >>

\* buf.readUInt32BE(1): the four bytes after the tag
readUInt32BE(buf) ==
    ((buf[2] * Byte + buf[3]) * Byte + buf[4]) * Byte + buf[5]

\* The payload is the MessagePack map of the message; its two fields are kept
\* as two cells: <<id, value>> for a response, <<id, message>> for an error,
\* <<terminal_id | session_id, data>> for a push.
encode(a, b) == <<a, b>>
decode(payload) == [id |-> payload[1], val |-> payload[2]]

\* send(): Buffer.concat([header, payload])
Frame(tag, payload) == <<tag>> \o writeUInt32BE(Len(payload)) \o payload

HeaderLength == 5

\* handleData's while loop, forgetting the bytes of an incomplete frame (mutant).
RECURSIVE handleDataLoopDropping(_, _)
handleDataLoopDropping(buf, msgs) ==
    IF Len(buf) < HeaderLength THEN [buffer |-> << >>, msgs |-> msgs]
    ELSE LET tag == buf[1]
             len == readUInt32BE(buf)
         IN  IF Len(buf) < HeaderLength + len THEN [buffer |-> << >>, msgs |-> msgs]
             ELSE handleDataLoopDropping(
                    SubSeq(buf, HeaderLength + len + 1, Len(buf)),
                    Append(msgs, [tag |-> tag,
                                  payload |-> SubSeq(buf, HeaderLength + 1, HeaderLength + len)]))

\* handleData's while loop: the frames cut from the buffer, in order, and the rest.
RECURSIVE handleDataLoop(_, _)
handleDataLoop(buf, msgs) ==
    IF Len(buf) < HeaderLength THEN [buffer |-> buf, msgs |-> msgs]
    ELSE LET tag == buf[1]
             len == readUInt32BE(buf)
         IN  IF Len(buf) < HeaderLength + len THEN [buffer |-> buf, msgs |-> msgs]
             ELSE handleDataLoop(
                    SubSeq(buf, HeaderLength + len + 1, Len(buf)),
                    Append(msgs, [tag |-> tag,
                                  payload |-> SubSeq(buf, HeaderLength + 1, HeaderLength + len)]))

(***************************************************************************)
(* Part I. handleMessage                                                   *)
(***************************************************************************)
NoPromise == 0

\* this.pending.get(msg.id), by first match on the oldest entry (mutant).
PendingGetOldest(pend, id) ==
    IF DOMAIN pend = {} THEN NoPromise
    ELSE pend[CHOOSE i \in DOMAIN pend : \A j \in DOMAIN pend : i <= j]

\* this.pending.get(msg.id)
PendingGet(pend, id) == IF id \in DOMAIN pend THEN pend[id] ELSE NoPromise

\* this.pending.delete(msg.id), leaving the entry in the map (mutant).
PendingKeep(pend, id) == pend

\* this.pending.delete(msg.id)
PendingDelete(pend, id) == [i \in (DOMAIN pend) \ {id} |-> pend[i]]

\* pending?.resolve(msg) / pending?.reject(...), settling every promise that
\* is still pending (mutant).
SettleAll(proms, p, how, msg) ==
    [q \in DOMAIN proms |->
        IF proms[q].state = "pending" THEN [proms[q] EXCEPT !.state = how, !.value = msg]
        ELSE proms[q]]

\* pending?.resolve(msg) / pending?.reject(new Error(msg.message)): a promise
\* settles once; settling it again changes nothing.
Settle(proms, p, how, msg) ==
    IF p = NoPromise \/ proms[p].state # "pending" THEN proms
    ELSE [proms EXCEPT ![p].state = how, ![p].value = msg]

\* Event classes a client emits pushes on.
PushEvents(k) == { EventName(tag) : tag \in PushTags(k) }

Events == {"data", "exit", "fileChange", "watchError", "error", "close"}

\* The listener UplinkPtyService registers on its client in _getClient.
ServiceListener == 1

\* client.on('data', ...) firing the newest data ahead of the older (mutant).
onServiceDataNewestFirst(st, terminalId, data) ==
    IF terminalId \in st.terminals
    THEN [st EXCEPT !.fired = <<[id |-> terminalId, event |-> data]>> \o st.fired]
    ELSE st

\* client.on('data', ...) of UplinkPtyService: fire onProcessData for a
\* terminal it holds, drop the data of a terminal it does not hold.
onServiceData(st, terminalId, data) ==
    IF terminalId \in st.terminals
    THEN [st EXCEPT !.fired = Append(st.fired, [id |-> terminalId, event |-> data])]
    ELSE st

\* client.on('exit', ...) of UplinkPtyService: the terminal is forgotten.
onServiceExit(st, terminalId) == [st EXCEPT !.terminals = st.terminals \ {terminalId}]

\* this.emit(ev, a, b), to the first registered listener only (mutant).
emitToFirst(k, st, ev, a, b) ==
    [st EXCEPT !.emitted = Append(st.emitted,
        [ev |-> ev, a |-> a, b |-> b, to |-> st.listeners[ev] \cap {ServiceListener}])]

\* this.emit(ev, a, b): every listener registered for ev at this moment is
\* called, synchronously; UplinkPtyService's listeners run inside it.
emit(k, st, ev, a, b) ==
    LET e == [st EXCEPT !.emitted = Append(st.emitted,
                 [ev |-> ev, a |-> a, b |-> b, to |-> st.listeners[ev]])]
    IN  IF k = "pty" /\ ServiceListener \in st.listeners[ev]
        THEN CASE ev = "data" -> onServiceData(e, a, b)
               [] ev = "exit" -> onServiceExit(e, a)
               [] OTHER -> e
        ELSE e

\* handleMessage(tag, payload) with a default case that fails the request
\* the frame names (mutant).
handleMessageStrict(k, st0, tag, payload) ==
    LET msg == decode(payload)
        st == [st0 EXCEPT !.dispatched = Append(st0.dispatched,
                  [tag |-> tag, payload |-> payload, matched |-> msg.id \in DOMAIN st0.pending])]
    IN
    IF tag \in ResolveTags(k) THEN
        [st EXCEPT !.promises = Settle(st.promises, PendingGet(st.pending, msg.id), "resolved", msg),
                   !.pending = PendingDelete(st.pending, msg.id)]
    ELSE IF tag \in PushTags(k) THEN
        emit(k, st, EventName(tag), msg.id, msg.val)
    ELSE
        [st EXCEPT !.promises = Settle(st.promises, PendingGet(st.pending, msg.id), "rejected", msg),
                   !.pending = PendingDelete(st.pending, msg.id)]

\* handleMessage(tag, payload) on the client state st; st.dispatched logs the
\* call and whether the map held the frame's id.
handleMessage(k, st0, tag, payload) ==
    LET msg == decode(payload)
        st == [st0 EXCEPT !.dispatched = Append(st0.dispatched,
                  [tag |-> tag, payload |-> payload, matched |-> msg.id \in DOMAIN st0.pending])]
    IN
    IF tag \in ResolveTags(k) THEN
        [st EXCEPT !.promises = Settle(st.promises, PendingGet(st.pending, msg.id), "resolved", msg),
                   !.pending = PendingDelete(st.pending, msg.id)]
    ELSE IF tag = ErrorTag(k) THEN
        [st EXCEPT !.promises = Settle(st.promises, PendingGet(st.pending, msg.id), "rejected", msg),
                   !.pending = PendingDelete(st.pending, msg.id)]
    ELSE IF tag \in PushTags(k) THEN
        emit(k, st, EventName(tag), msg.id, msg.val)
    ELSE st

RECURSIVE handleMessages(_, _, _)
handleMessages(k, st, msgs) ==
    IF msgs = <<>> THEN st
    ELSE handleMessages(k, handleMessage(k, st, Head(msgs).tag, Head(msgs).payload), Tail(msgs))

(***************************************************************************)
(* Part II. PersistentProtocol: envelopes and the protocol's handlers      *)
(***************************************************************************)
Sides == {"c", "s"}
Other(side) == IF side = "c" THEN "s" ELSE "c"

\* enum ProtocolMessageType
None == 0
Regular == 1
Control == 2
Ack == 3
Disconnect == 5
ReplayRequest == 6
Pause == 7
Resume == 8
KeepAlive == 9

MessageTypes == {None, Regular, Control, Ack, Disconnect, ReplayRequest, Pause, Resume, KeepAlive}

\* new ProtocolMessage(type, id, ack, data); the payload of a data message
\* stands in its id.
ProtocolMessage(type, id, ack) == [type |-> type, id |-> id, ack |-> ack]

NoMessage == ProtocolMessage(None, 0, 0)

\* A PersistentProtocol instance right after construction on its first socket.
\* delivered, sent, lastOp, lastIn and out record what the instance did:
\* the ids fired on onMessage, the envelopes send() built, the operation that
\* ran last, the envelope it was given, and what it wrote to the socket.
NewProtocol ==
    [ outgoingUnackMsg |-> << >>,
      outgoingMsgId |-> 0,
      outgoingAckId |-> 0,
      incomingMsgId |-> 0,
      incomingAckId |-> 0,
      isPaused |-> FALSE,
      flushedId |-> 0,
      isDisposed |-> FALSE,
      socket |-> 1,
      delivered |-> << >>,
      sent |-> << >>,
      lastOp |-> "new",
      lastIn |-> NoMessage,
      out |-> << >> ]

\* Start of an operation: nothing written yet.
Begin(p, op, in) == [p EXCEPT !.lastOp = op, !.lastIn = in, !.out = << >>]

\* this._socketWriter.write(msg): a data envelope is held back while the
\* writer is paused; every other envelope is written at once.
write(p, msg) ==
    IF msg.type = Regular /\ p.isPaused THEN p
    ELSE [p EXCEPT !.out = Append(p.out, msg),
                   !.flushedId = IF msg.type = Regular /\ msg.id > p.flushedId
                                 THEN msg.id ELSE p.flushedId]

RECURSIVE writeAll(_, _)
writeAll(p, msgs) ==
    IF msgs = << >> THEN p ELSE writeAll(write(p, Head(msgs)), Tail(msgs))

\* const myId = ++this._outgoingMsgId, if ids restarted with the queue (mutant).
NextMsgIdFromQueue(p) == Len(p.outgoingUnackMsg) + 1

\* const myId = ++this._outgoingMsgId
NextMsgId(p) == p.outgoingMsgId + 1

\* send(buffer), dropping the message while the writer is paused (mutant).
sendDroppingWhilePaused(p) ==
    IF p.isPaused THEN Begin(p, "send", NoMessage)
    ELSE LET myId == NextMsgId(p)
             msg == ProtocolMessage(Regular, myId, p.incomingAckId)
         IN  write([Begin(p, "send", NoMessage) EXCEPT
                       !.outgoingMsgId = myId,
                       !.sent = Append(p.sent, msg),
                       !.outgoingUnackMsg = Append(p.outgoingUnackMsg, msg)], msg)

\* send(buffer)
send(p) ==
    LET myId == NextMsgId(p)
        msg == ProtocolMessage(Regular, myId, p.incomingAckId)
        q == [Begin(p, "send", NoMessage) EXCEPT
                 !.outgoingMsgId = myId,
                 !.sent = Append(p.sent, msg),
                 !.outgoingUnackMsg = Append(p.outgoingUnackMsg, msg)]
    IN  write(q, msg)

\* Envelopes that carry no data: id 0, the current ack where the type has one.
sendControl(p) == write(Begin(p, "sendControl", NoMessage), ProtocolMessage(Control, 0, 0))
\* The acknowledge timer, writing nothing (mutant).
sendAckNever(p) == Begin(p, "sendAck", NoMessage)
sendAck(p) == write(Begin(p, "sendAck", NoMessage), ProtocolMessage(Ack, 0, p.incomingAckId))
sendKeepAlive(p) ==
    write(Begin(p, "sendKeepAlive", NoMessage), ProtocolMessage(KeepAlive, 0, p.incomingAckId))
sendPause(p) == write(Begin(p, "sendPause", NoMessage), ProtocolMessage(Pause, 0, 0))
sendResume(p) == write(Begin(p, "sendResume", NoMessage), ProtocolMessage(Resume, 0, 0))

\* while (this._outgoingUnackMsg.peek()?.id <= msg.ack) this._outgoingUnackMsg.pop()
RECURSIVE popAcked(_, _)
popAcked(q, ack) ==
    IF q # << >> /\ Head(q).id <= ack THEN popAcked(Tail(q), ack) ELSE q

\* The ack half of _receiveMessage, taking every ack as the newest (mutant).
receiveAckAlways(p, msg) ==
    [p EXCEPT !.outgoingAckId = msg.ack,
              !.outgoingUnackMsg = popAcked(p.outgoingUnackMsg, msg.ack)]

\* if (msg.ack > this._outgoingAckId) { this._outgoingAckId = msg.ack;
\*   while (this._outgoingUnackMsg.peek()?.id <= msg.ack) pop() }
receiveAck(p, msg) ==
    IF msg.ack > p.outgoingAckId
    THEN [p EXCEPT !.outgoingAckId = msg.ack,
                   !.outgoingUnackMsg = popAcked(p.outgoingUnackMsg, msg.ack)]
    ELSE p

\* Whether an arriving data envelope is the next one, accepting any newer id
\* (mutant), or accepting anything (mutant).
IsNextNewer(p, msg) == msg.id > p.incomingMsgId
IsNextAny(p, msg) == TRUE

\* A data message is accepted only if its id is exactly last-received + 1.
IsNext(p, msg) == msg.id = p.incomingMsgId + 1

\* An accepted data message advances last-received, raises the ack value
\* carried by the next outgoing envelope and is fired on onMessage.
acceptMessage(p, msg) ==
    [p EXCEPT !.incomingMsgId = msg.id,
              !.incomingAckId = msg.id,
              !.delivered = Append(p.delivered, msg.id)]

\* The data half of _receiveMessage for a Regular envelope: the next id is
\* accepted and handed on; if (msg.id !== this._incomingMsgId + 1) a replay is
\* requested and the envelope is dropped.
receiveRegular(p, msg) ==
    IF IsNext(p, msg)
    THEN acceptMessage(p, msg)
    ELSE write(p, ProtocolMessage(ReplayRequest, 0, 0))

\* Writing the queued envelopes again, with nothing written (mutant).
replayNothing(p) == p

\* case ProtocolMessageType.ReplayRequest: write every queued envelope again
replay(p) == writeAll(p, p.outgoingUnackMsg)

\* Pause stops data emission; Resume lifts it and writes the data envelopes
\* that were held back, in id order.
Unflushed(p) == SelectSeq(p.outgoingUnackMsg, LAMBDA m : m.id > p.flushedId)

\* _receiveMessage(msg)
receiveMessage(p, msg) ==
    LET q == receiveAck(Begin(p, "receive", msg), msg) IN
    CASE msg.type = Regular -> receiveRegular(q, msg)
      [] msg.type = ReplayRequest -> replay(q)
      [] msg.type = Pause -> [q EXCEPT !.isPaused = TRUE]
      [] msg.type = Resume -> LET r == [q EXCEPT !.isPaused = FALSE] IN writeAll(r, Unflushed(r))
      [] msg.type = Disconnect -> [q EXCEPT !.isDisposed = TRUE]
      [] OTHER -> q

\* beginAcceptReconnection(socket), keeping the old writer (mutant).
beginAcceptReconnectionKeep(p, newSocket) == Begin(p, "acceptReconnection", NoMessage)

\* beginAcceptReconnection(socket): the protocol disposes the socket it was
\* on and moves to the new one, with a fresh writer.
beginAcceptReconnection(p, newSocket) ==
    [Begin(p, "acceptReconnection", NoMessage) EXCEPT !.socket = newSocket, !.isPaused = FALSE]

\* endAcceptReconnection(), replaying before the ack (mutant).
endAcceptReconnectionReplayFirst(p) ==
    write(replay(p), ProtocolMessage(Ack, 0, p.incomingAckId))

\* endAcceptReconnection(): re-send the ack, then replay the queue
endAcceptReconnection(p) ==
    replay(write(p, ProtocolMessage(Ack, 0, p.incomingAckId)))

(***************************************************************************)
(* Part II. The channel layer: ChannelClient and ChannelServer             *)
(***************************************************************************)
MaxChannelCalls == 2   \* calls the ChannelClient issues

\* enum RequestType / enum ResponseType
Promise == 100
PromiseCancel == 101
PromiseSuccess == 201
PromiseError == 202

\* The channels registered with registerChannel and the methods they have;
\* callers may also name a channel or a method that does not exist.
RegisteredChannels == {"fs"}
MethodsOf(channelName) == IF channelName = "fs" THEN {"stat"} ELSE {}

ChannelNames == RegisteredChannels \cup {"nosuch"}
MethodNames == {"stat", "nosuch"}

\* calls[id + 1] is the call with request id `id`; toServer and toClient are
\* the messages the protocol below has yet to deliver, in order; received
\* and responses record what onPromise was handed and what sendResponse
\* sent.
NewIpc ==
    [ lastRequestId |-> 0,
      calls |-> << >>,
      toServer |-> << >>,
      toClient |-> << >>,
      activeRequests |-> {},
      cancelled |-> {},
      received |-> << >>,
      responses |-> << >> ]

(***************************************************************************)
(* Part II. Serialization: serialize() and deserialize() of the channel    *)
(* layer's headers and bodies                                              *)
(***************************************************************************)
\* enum DataType
DataTypeUndefined == 0
DataTypeString == 1
DataTypeBuffer == 2
DataTypeVSBuffer == 3
DataTypeArray == 4
DataTypeObject == 5
DataTypeInt == 6

\* A value: its type, the number of an Int, the code points of a String,
\* the bytes of a Buffer or the members of an Object (key, value, key,
\* value, ...; keys are letters, values digits), and the items of an Array.
Value(type, int, data, items) == [type |-> type, int |-> int, data |-> data, items |-> items]

\* writeInt32VQL(value): 7 value bits per byte, low bits first, the high bit
\* set on every byte but the last
RECURSIVE writeInt32VQL(_)
writeInt32VQL(value) ==
    IF value < 128 THEN <<value>>
    ELSE <<128 + (value % 128)>> \o writeInt32VQL(value \div 128)

\* readIntVQL(reader), taking the groups high bits first (mutant).
RECURSIVE readIntVQLHighFirst(_, _, _)
readIntVQLHighFirst(bytes, value, scale) ==
    LET next == Head(bytes)
        v == value * 128 + (next % 128)
    IN  IF next < 128 THEN [value |-> v, rest |-> Tail(bytes)]
        ELSE readIntVQLHighFirst(Tail(bytes), v, scale * 128)

\* readIntVQL(reader): value |= (next & 0x7f) << n, until a byte without the
\* high bit; scale is 2^n
RECURSIVE readIntVQL(_, _, _)
readIntVQL(bytes, value, scale) ==
    LET next == Head(bytes)
        v == value + (next % 128) * scale
    IN  IF next < 128 THEN [value |-> v, rest |-> Tail(bytes)]
        ELSE readIntVQL(Tail(bytes), v, scale * 128)

\* UTF-8 of a string of code points below 0x800
RECURSIVE utf8Encode(_)
utf8Encode(codePoints) ==
    IF codePoints = << >> THEN << >>
    ELSE LET cp == Head(codePoints) IN
         (IF cp < 128 THEN <<cp>> ELSE <<192 + (cp \div 64), 128 + (cp % 64)>>)
         \o utf8Encode(Tail(codePoints))

RECURSIVE utf8Decode(_)
utf8Decode(bytes) ==
    IF bytes = << >> THEN << >>
    ELSE IF Head(bytes) < 128 THEN <<Head(bytes)>> \o utf8Decode(Tail(bytes))
    ELSE <<(Head(bytes) - 192) * 64 + (bytes[2] - 128)>> \o utf8Decode(SubSeq(bytes, 3, Len(bytes)))

\* JSON.stringify of an object's members: {"k":d,"k":d}
RECURSIVE stringifyMembers(_)
stringifyMembers(members) ==
    IF members = << >> THEN << >>
    ELSE <<34, members[1], 34, 58, 48 + members[2]>>
         \o (IF Len(members) > 2 THEN <<44>> ELSE << >>)
         \o stringifyMembers(SubSeq(members, 3, Len(members)))

stringify(members) == <<123>> \o stringifyMembers(members) \o <<125>>

\* JSON.parse of such a text, from the position after the opening brace
RECURSIVE parseMembers(_)
parseMembers(text) ==
    IF Head(text) = 125 THEN << >>
    ELSE IF Head(text) = 44 THEN parseMembers(Tail(text))
    ELSE <<text[2], text[5] - 48>> \o parseMembers(SubSeq(text, 6, Len(text)))

parse(text) == parseMembers(Tail(text))

\* serialize(writer, data)
RECURSIVE serialize(_)
RECURSIVE serializeItems(_)
serializeItems(items) ==
    IF items = << >> THEN << >> ELSE serialize(Head(items)) \o serializeItems(Tail(items))

serialize(v) ==
    CASE v.type = DataTypeUndefined -> <<DataTypeUndefined>>
      [] v.type = DataTypeString ->
            LET bytes == utf8Encode(v.data)
            IN  <<DataTypeString>> \o writeInt32VQL(Len(bytes)) \o bytes
      [] v.type \in {DataTypeBuffer, DataTypeVSBuffer} ->
            <<v.type>> \o writeInt32VQL(Len(v.data)) \o v.data
      [] v.type = DataTypeArray ->
            <<DataTypeArray>> \o writeInt32VQL(Len(v.items)) \o serializeItems(v.items)
      [] v.type = DataTypeObject ->
            LET bytes == utf8Encode(stringify(v.data))
            IN  <<DataTypeObject>> \o writeInt32VQL(Len(bytes)) \o bytes
      [] v.type = DataTypeInt -> <<DataTypeInt>> \o writeInt32VQL(v.int)

\* deserialize(reader): the value read and the bytes after it
RECURSIVE deserialize(_)
RECURSIVE deserializeItems(_, _)
deserializeItems(bytes, n) ==
    IF n = 0 THEN [items |-> << >>, rest |-> bytes]
    ELSE LET first == deserialize(bytes)
             others == deserializeItems(first.rest, n - 1)
         IN  [items |-> <<first.value>> \o others.items, rest |-> others.rest]

deserialize(bytes) ==
    LET type == Head(bytes)
        n == readIntVQL(Tail(bytes), 0, 1)
        body == SubSeq(n.rest, 1, n.value)
        after == SubSeq(n.rest, n.value + 1, Len(n.rest))
    IN  CASE type = DataTypeUndefined ->
                [value |-> Value(type, 0, << >>, << >>), rest |-> Tail(bytes)]
          [] type = DataTypeString ->
                [value |-> Value(type, 0, utf8Decode(body), << >>), rest |-> after]
          [] type \in {DataTypeBuffer, DataTypeVSBuffer} ->
                [value |-> Value(type, 0, body, << >>), rest |-> after]
          [] type = DataTypeArray ->
                LET read == deserializeItems(n.rest, n.value)
                IN  [value |-> Value(type, 0, << >>, read.items), rest |-> read.rest]
          [] type = DataTypeObject ->
                [value |-> Value(type, 0, parse(utf8Decode(body)), << >>), rest |-> after]
          [] type = DataTypeInt ->
                [value |-> Value(type, n.value, << >>, << >>), rest |-> n.rest]

\* No value is being serialized.
NothingToSerialize ==
    [phase |-> "none", x |-> Value(DataTypeUndefined, 0, << >>, << >>), bytes |-> << >>,
     y |-> Value(DataTypeUndefined, 0, << >>, << >>), rest |-> << >>, again |-> << >>]

(***************************************************************************)
(* Part II. The connection handshake: _handleWebSocketConnection()         *)
(***************************************************************************)
MaxUpgrades == 2     \* connections upgraded in a run
MaxData == 2         \* data messages a client writes on a connection
HandshakeTokens == 1..2

\* A connection as the handshake sees it.  auth, commit and signedData
\* record whether what the client presented was valid; sent is what the
\* server answered; arrived counts the data messages that came in and
\* accepted holds the ids of those handed on.
NewHandshake ==
    [ state |-> "free",
      isReconnection |-> FALSE,
      reconnectionToken |-> 0,
      auth |-> FALSE,
      commit |-> FALSE,
      signedData |-> FALSE,
      sent |-> << >>,
      reason |-> "",
      arrived |-> 0,
      accepted |-> << >> ]

\* The server: its connections, this._managementConnections as the
\* connection each token's session is on (0: no session), and
\* this._allReconnectionTokens.
NewServer ==
    [ conns |-> [s \in 1..MaxUpgrades |-> NewHandshake],
      managementConnections |-> [t \in HandshakeTokens |-> 0],
      allReconnectionTokens |-> {} ]

\* rejectConnection(reason): { type: "error", reason }, and the socket is
\* closed
rejectConnection(h, reason) ==
    [h EXCEPT !.state = "Rejected", !.reason = reason, !.sent = Append(@, "error")]

\* The auth message, taken without validating the connection token (mutant).
onAuthUnchecked(h, valid) ==
    [h EXCEPT !.state = "WaitingForConnectionType", !.auth = valid, !.sent = Append(@, "sign")]

\* { type: "auth" }: if (!connectionToken.validate(msg.auth)) return
\* rejectConnection("auth mismatch"); otherwise { type: "sign" } is sent
onAuth(h, valid) ==
    IF ~valid THEN rejectConnection(h, "auth mismatch")
    ELSE [h EXCEPT !.state = "WaitingForConnectionType", !.auth = TRUE, !.sent = Append(@, "sign")]

\* { type: "ok" } for the connection s of server v, which takes over the
\* session of its token; the connection the session was on is closed.
acceptConnection(v, s) ==
    LET h == v.conns[s]
        t == h.reconnectionToken
        old == v.managementConnections[t]
    IN  [v EXCEPT
            !.conns = [c \in DOMAIN @ |->
                          IF c = s THEN [h EXCEPT !.state = "Done", !.commit = TRUE,
                                                  !.signedData = TRUE, !.sent = Append(@, "ok")]
                          ELSE IF c = old THEN [@[c] EXCEPT !.state = "Closed"]
                          ELSE @[c]],
            !.managementConnections[t] = s,
            !.allReconnectionTokens = @ \cup {t}]

\* { type: "connectionType" }: the commit and the signature are validated,
\* then the reconnection token: a reconnection needs a session under its
\* token, a first connection a token that has none.
onConnectionType(v, s, commitValid, signedValid) ==
    LET h == v.conns[s]
        t == h.reconnectionToken
        refuse(reason) == [v EXCEPT !.conns[s] = rejectConnection(h, reason)]
    IN  IF ~commitValid THEN refuse("version mismatch")
        ELSE IF ~signedValid THEN refuse("Unauthorized client refused")
        ELSE IF h.isReconnection /\ v.managementConnections[t] = 0
             THEN refuse("Unknown reconnection token")
        ELSE IF ~h.isReconnection /\ v.managementConnections[t] # 0
             THEN refuse("Duplicate reconnection token")
        ELSE acceptConnection(v, s)

\* A data message on a connection: it is accepted and handed on once the
\* handshake is done, and not before.
onData(h, id) ==
    IF h.state = "Done"
    THEN [h EXCEPT !.arrived = @ + 1, !.accepted = Append(@, id)]
    ELSE [h EXCEPT !.arrived = @ + 1]

\* A socket that stays up between the two endpoints: the envelopes on their
\* way to each side, in the order written; the highest ack each side has
\* written; whether a side has paused its peer, and the pauses so far.
NewLink ==
    [ to |-> [side \in Sides |-> << >>],
      ackWritten |-> [side \in Sides |-> 0],
      pausing |-> [side \in Sides |-> FALSE],
      pauses |-> 0 ]

(***************************************************************************)
(* Part IV. The host side: state after construction                        *)
(***************************************************************************)

\* new UplinkPtyService(): no client, no attempt, ids from 1, no terminals.
\* clients are the UplinkPtyClient instances _getClient created, in order;
\* waiting are the calls suspended on a connection attempt; requests are
\* the requests handed to a client; exits and returned are what the service
\* fired on onProcessExit and returned to its callers.
NewService ==
    [ client |-> 0,
      clientPromise |-> 0,
      nextId |-> 1,
      terminals |-> << >>,
      clients |-> << >>,
      waiting |-> << >>,
      requests |-> << >>,
      exits |-> << >>,
      returned |-> << >>,
      srvExited |-> {},
      calls |-> 0 ]

\* new UplinkFileSystemProvider(logService): no client, no attempt, no
\* watches. clients are the UplinkFsClient instances doConnect created;
\* waiting are the operations suspended in ensureConnected; sent are the
\* requests handed to a client; handles counts the dispose() calls on the
\* disposable of each watch.
NewProvider ==
    [ client |-> 0,
      connecting |-> 0,
      watchCounter |-> 0,
      watches |-> {},
      clients |-> << >>,
      waiting |-> << >>,
      sent |-> << >>,
      failed |-> << >>,
      handles |-> << >>,
      stats |-> 0 ]

MaxProcesses == 3

\* uplinkTerminalProcess.ts as loaded: no shared client, no attempt, and
\* the UplinkTerminalProcess instances not yet started. waiting are the
\* start() calls suspended on the shared attempt.
NewShared ==
    [ sharedClient |-> 0,
      sharedClientPromise |-> 0,
      clients |-> << >>,
      waiting |-> << >>,
      processes |-> [x \in 1..MaxProcesses |-> [phase |-> "new", client |-> 0]] ]

\* new UplinkSessionFileWatcher(...): no watcher requests. providerWatches
\* are the watches provider.watch() started for it, handles the
\* disposables its watch() returned.
NewWatcher ==
    [ watcherRequests |-> << >>,
      providerWatches |-> << >>,
      handles |-> << >>,
      disposed |-> FALSE ]

\* ptyHostMain.ts before startUplinkPty is called: no promise, no timer.
\* events are the child's events and the timer's, in the order their
\* handlers ran.
NewBoot ==
    [ phase |-> "idle", promise |-> "none", uplinkPtyProcess |-> "null",
      timeoutId |-> "null", events |-> << >> ]

HostIdle ==
    /\ service = NewService
    /\ shared = NewShared
    /\ provider = NewProvider
    /\ watcher = NewWatcher
    /\ boot = NewBoot

ProtocolIdle ==
    /\ proto = [side \in Sides |-> NewProtocol]
    /\ ipc = NewIpc
    /\ ser = NothingToSerialize
    /\ link = NewLink
    /\ hs = NewServer
    /\ ready = << >>
    /\ HostIdle

\* [RequestType.Promise, id, channelName, methodName] / [RequestType.PromiseCancel, id]
RawRequest(type, id, channelName, name) ==
    [type |-> type, id |-> id, channelName |-> channelName, name |-> name]

\* [ResponseType.PromiseSuccess, id, result] / [ResponseType.PromiseError, id, error]
RawResponse(type, id, data) == [type |-> type, id |-> id, data |-> data]

\* call(method, args): const id = this.lastRequestId++; this.sendRequest(...)
call(c, channelName, name) ==
    LET id == c.lastRequestId IN
    [c EXCEPT !.lastRequestId = id + 1,
              !.calls = Append(@, [id |-> id, channelName |-> channelName, name |-> name,
                                   state |-> "pending", data |-> "", cancelled |-> FALSE]),
              !.toServer = Append(@, RawRequest(Promise, id, channelName, name))]

\* token.cancel(): sends the PromiseCancel message for the call
cancel(c, id) ==
    [c EXCEPT !.calls[id + 1].cancelled = TRUE,
              !.toServer = Append(@, RawRequest(PromiseCancel, id, "", ""))]

\* this.sendResponse({ type, id, data })
sendResponse(c, response) ==
    [c EXCEPT !.responses = Append(@, response),
              !.toClient = Append(@, response)]

\* The receiver resolves the named channel's method, taking any name as
\* registered (mutant).
resolveAny(channelName, name) == "found"

\* The receiver resolves the named channel's method.
resolve(channelName, name) ==
    IF channelName \in RegisteredChannels /\ name \in MethodsOf(channelName)
    THEN "found" ELSE "not found"

\* onPromise(request): the channel's method is called and its promise is
\* awaited; a name that resolves to nothing is answered at once.
onPromise(c, request) ==
    LET d == [c EXCEPT !.received = Append(@, request.id)] IN
    IF resolve(request.channelName, request.name) = "found"
    THEN [d EXCEPT !.activeRequests = @ \cup {request.id}]
    ELSE sendResponse(d, RawResponse(PromiseError, request.id, "not found"))

\* On cancel message: cancellationTokenSource.cancel(), for a call that is
\* still running.
onPromiseCancel(c, request) ==
    IF request.id \in c.activeRequests
    THEN [c EXCEPT !.cancelled = @ \cup {request.id}]
    ELSE c

onRawRequest(c, request) ==
    IF request.type = Promise THEN onPromise(c, request) ELSE onPromiseCancel(c, request)

\* How the promise of channel.call(...) settles.
Outcomes == {"returned", "threw", "canceled"}

\* promise.then with the success handler only (mutant).
thenSuccessOnly(c, id, outcome) ==
    LET d == [c EXCEPT !.activeRequests = @ \ {id}] IN
    IF outcome = "returned"
    THEN sendResponse(d, RawResponse(PromiseSuccess, id, outcome))
    ELSE d

\* promise.then(data => this.sendResponse({ type: PromiseSuccess, id, data }),
\*              err => this.sendResponse({ type: PromiseError, id, data: err }))
then(c, id, outcome) ==
    LET d == [c EXCEPT !.activeRequests = @ \ {id}] IN
    IF outcome = "returned"
    THEN sendResponse(d, RawResponse(PromiseSuccess, id, outcome))
    ELSE sendResponse(d, RawResponse(PromiseError, id, outcome))

\* The client settles the call a response is tagged with, once.
onResponse(c, response) ==
    IF response.id + 1 \in DOMAIN c.calls /\ c.calls[response.id + 1].state = "pending"
    THEN [c EXCEPT !.calls[response.id + 1].state =
                       IF response.type = PromiseSuccess THEN "resolved" ELSE "rejected",
                   !.calls[response.id + 1].data = response.data]
    ELSE c

(***************************************************************************)
(* Part III. Sessions: bounds, state and the channel layer's bookkeeping   *)
(***************************************************************************)
MaxConns == 3          \* physical connections opened in a run
MaxTokens == 2         \* reconnection tokens; the client of session 1 holds token 1
MaxRequests == 2       \* requests the ChannelClient issues
GraceTicks == 3        \* ReconnectionGraceTime, in timer ticks
ShortGraceTicks == 2   \* ReconnectionShortGraceTime, in timer ticks

Sockets == 1..MaxConns
Tokens == 1..MaxTokens

\* What the server knows of a physical connection.  state: "free" (not opened
\* yet), "handshake" (upgraded, token presented), "open" (accepted),
\* "rejected", "closed" (dropped), "superseded" (force-closed on handoff).
NewConnection == [state |-> "free", token |-> 0, reconnection |-> FALSE, reason |-> ""]

NoTraffic == [toS |-> << >>, toC |-> << >>]

\* A ManagementConnection: its protocol, the ticks left of its grace while
\* it is disconnected (0: no timer runs), and whether the short timer runs.
NoSession == [present |-> FALSE, protocol |-> NewProtocol, graceLeft |-> 0, shortened |-> FALSE]

ManagementConnection(sock) ==
    [present |-> TRUE, protocol |-> [NewProtocol EXCEPT !.socket = sock],
     graceLeft |-> 0, shortened |-> FALSE]

\* A protocol between operations: the record of what it did is dropped, its
\* counters, queue and socket stay.
AtRest(q) == [Begin(q, "new", NoMessage) EXCEPT !.sent = << >>]

\* A session after an operation that left its protocol as q.
Ran(conn, q) == [conn EXCEPT !.protocol = AtRest(q)]

\* The client before it connects.  requests[id + 1] is the request with that
\* id; payload[m] is the request carried by the client's data message m.
NewChannelClient ==
    [ state |-> "new",
      socket |-> 0,
      protocol |-> NewProtocol,
      lastRequestId |-> 0,
      requests |-> << >>,
      payload |-> << >> ]

\* The ChannelServer of session 1.  received: the request ids handed to it,
\* in order; payload[m] is the call answered by the server's data message m.
\* receivedOn and respondedOn record the socket the session was on when the
\* request was handed over and when the response was sent.
NewChannelServer ==
    [ received |-> << >>,
      responded |-> {},
      listeners |-> {},
      payload |-> << >>,
      receivedOn |-> << >>,
      respondedOn |-> << >> ]

SessionIdle ==
    /\ conns = [s \in Sockets |-> NewConnection]
    /\ net = [s \in Sockets |-> NoTraffic]
    /\ managementConnections = [t \in Tokens |-> NoSession]
    /\ allReconnectionTokens = {}
    /\ chan = NewChannelClient
    /\ srv = NewChannelServer

IsOpen(cs, sock) == sock \in Sockets /\ cs[sock].state = "open"

\* A session whose protocol has no open socket under it.
Disconnected(t) ==
    /\ managementConnections[t].present
    /\ ~IsOpen(conns, managementConnections[t].protocol.socket)

\* Envelopes written to a socket travel on it only while it is open at the
\* server, and towards the client only while the client is on that socket.
ToServer(n, cs, sock, out) ==
    IF IsOpen(cs, sock) /\ out # << >>
    THEN [n EXCEPT ![sock].toS = @ \o out]
    ELSE n

ToClient(n, cs, sock, out) ==
    IF IsOpen(cs, sock) /\ sock = chan.socket /\ out # << >>
    THEN [n EXCEPT ![sock].toC = @ \o out]
    ELSE n

\* The server's record of a connection that is over.
Ended(c, how, reason) == [c EXCEPT !.state = how, !.reconnection = FALSE, !.reason = reason]

\* Settling every request of a torn-down session, leaving them as they are
\* (mutant).
rejectAllKeepPending(requests) == requests

\* Session teardown at the client: every pending call is rejected with a
\* disconnected error and every subscription is torn down.
rejectAll(requests) ==
    [i \in 1..Len(requests) |->
        IF requests[i].state \in {"pending", "listening"}
        THEN [requests[i] EXCEPT !.state = "disconnected"]
        ELSE requests[i]]

\* The requests that were outstanding when the socket was lost are marked as
\* having lived through a drop.
markAcrossDrop(requests) ==
    [i \in 1..Len(requests) |->
        IF requests[i].state \in {"pending", "listening"}
        THEN [requests[i] EXCEPT !.acrossDrop = TRUE]
        ELSE requests[i]]

\* The client's reaction to losing its socket, failing its calls (mutant).
onSocketCloseFailing(c) ==
    [c EXCEPT !.state = "reconnecting", !.socket = 0,
              !.requests = rejectAll(markAcrossDrop(c.requests))]

\* The client's reaction to losing its socket: the PersistentProtocol state is
\* kept and a reconnection will be attempted; the calls stay as they are.
onSocketClose(c) ==
    [c EXCEPT !.state = "reconnecting", !.socket = 0,
              !.requests = markAcrossDrop(c.requests)]

\* Permanent disconnect reported upward at the client.
onPermanentFailure(c) ==
    [c EXCEPT !.state = "failed", !.socket = 0, !.requests = rejectAll(c.requests)]

\* conn.shortenReconnectionGraceTimeIfNecessary(), restarting the grace of
\* every session at the short window (mutant).
shortenReconnectionGraceTimeAlways(conn, disconnected) ==
    IF conn.present
    THEN [conn EXCEPT !.graceLeft = ShortGraceTicks, !.shortened = TRUE]
    ELSE conn

\* conn.shortenReconnectionGraceTimeIfNecessary()
shortenReconnectionGraceTimeIfNecessary(conn, disconnected) ==
    IF conn.present /\ disconnected /\ conn.graceLeft > ShortGraceTicks
    THEN [conn EXCEPT !.graceLeft = ShortGraceTicks, !.shortened = TRUE]
    ELSE conn

\* reject("Unknown reconnection token (...)"), with one reason for every
\* unknown token (mutant).
unknownTokenReasonSame(token, tokens) == "never seen"

\* reject("Unknown reconnection token (never seen)") / "(seen before)"
unknownTokenReason(token, tokens) ==
    IF token \notin tokens THEN "never seen" ELSE "seen before"

\* The grace timer of a disconnected session fires with this tick, or one
\* tick late (mutant).
timerFiresLate(conn) == conn.graceLeft = 0

\* The grace timer of a disconnected session fires with this tick: it is the
\* last of its grace.
timerFires(conn) == conn.graceLeft = 1

\* The server's connections after it accepted socket sock for a protocol that
\* was p and is now q: the socket the protocol left was disposed by it, which
\* force-closes it if it was still open.
acceptedConnections(cs, sock, p, q) ==
    [c \in Sockets |->
        IF c = sock THEN [cs[c] EXCEPT !.state = "open"]
        ELSE IF c = p.socket /\ q.socket # p.socket /\ cs[c].state = "open"
             THEN Ended(cs[c], "superseded", "")
             ELSE cs[c]]

(***************************************************************************)
(* Part I. Operations of the client                                        *)
(***************************************************************************)
NotConnected == 900   \* Error('Not connected'), as a message code
ServerError == 901    \* the message of a sidecar error response
StrayValue == 902     \* the content of a frame nobody asked for

NoListeners == [ev \in Events |-> {}]

ClientInit ==
    /\ kind \in Kinds
    /\ socket = "null"
    /\ sockState = "none"
    /\ buffer = <<>>
    /\ nextId = 1
    /\ pending = << >>
    /\ promises = << >>
    /\ emitted = << >>
    /\ srvIn = {}
    /\ wire = << >>
    /\ written = << >>
    /\ dispatched = << >>
    /\ listeners = NoListeners
    /\ terminals = {}
    /\ fired = << >>
    /\ ProtocolIdle
    /\ SessionIdle

\* connect(): net.createConnection(...) and the three listeners
Connect ==
    /\ sockState = "none"
    /\ socket' = "set"
    /\ sockState' = "connecting"
    /\ UNCHANGED <<pvars, svars>>
    /\ UNCHANGED <<kind, buffer, nextId, pending, promises, emitted, srvIn, wire>>
    /\ UNCHANGED <<written, dispatched, listeners, terminals, fired>>

\* the connection listener of createConnection
ConnectOk ==
    /\ sockState = "connecting"
    /\ sockState' = "open"
    /\ UNCHANGED <<pvars, svars>>
    /\ UNCHANGED <<kind, socket, buffer, nextId, pending, promises, emitted, srvIn, wire>>
    /\ UNCHANGED <<written, dispatched, listeners, terminals, fired>>

\* client.on(ev, listener): one more listener for the event class
On(ev) ==
    /\ Cardinality(listeners[ev]) < MaxListeners
    /\ listeners' = [listeners EXCEPT ![ev] = @ \cup {Cardinality(@) + 1}]
    /\ UNCHANGED <<pvars, svars>>
    /\ UNCHANGED <<kind, socket, sockState, buffer, nextId, pending, promises, emitted, srvIn, wire>>
    /\ UNCHANGED <<written, dispatched, terminals, fired>>

\* const id = this.nextId++ (the value nextId has afterwards), without the
\* increment (mutant).
nextIdReused(n) == n

\* const id = this.nextId++ (the value nextId has afterwards)
nextIdAfter(n) == n + 1

\* create / input / resize / kill, stat / mkdir ...: const id = this.nextId++;
\* request(): pending.set(id, {resolve, reject}); send(tag, msg)
Request(tag) ==
    /\ Len(promises) < MaxCalls
    /\ LET id == nextId
           p == Len(promises) + 1
           thrown == (socket = "null")
       IN  /\ nextId' = nextIdAfter(nextId)
           /\ pending' = [i \in (DOMAIN pending) \cup {id} |-> IF i = id THEN p ELSE pending[i]]
           /\ promises' = Append(promises,
                  IF thrown
                  THEN [id |-> id, tag |-> tag, state |-> "rejected",
                        value |-> [id |-> id, val |-> NotConnected]]
                  ELSE [id |-> id, tag |-> tag, state |-> "pending",
                        value |-> [id |-> 0, val |-> 0]])
           /\ srvIn' = IF ~thrown /\ sockState \in {"connecting", "open"}
                       THEN srvIn \cup {[id |-> id, tag |-> tag]}
                       ELSE srvIn
    /\ UNCHANGED <<pvars, svars>>
    /\ UNCHANGED <<kind, socket, sockState, buffer, emitted, wire>>
    /\ UNCHANGED <<written, dispatched, listeners, terminals, fired>>

\* The result the sidecar computes for a request: a value that depends on the
\* request, so that two requests' results differ when the requests do.  For
\* a create it is the terminal_id of the new terminal.
Result(r) == r.tag

\* The sidecar writes one frame to the socket.
Written(tag, payload, why) == [tag |-> tag, payload |-> payload, why |-> why]

ServerWrite(tag, payload, why) ==
    /\ wire' = wire \o Frame(tag, payload)
    /\ written' = Append(written, Written(tag, payload, why))

WrittenAs(why) == { i \in DOMAIN written : written[i].why = why }

\* The sidecar answers a request it has read, with that request's result or
\* with an error.
ServerRespond ==
    /\ sockState = "open"
    /\ \E r \in srvIn :
         /\ srvIn' = srvIn \ {r}
         /\ \/ ServerWrite(ResponseTag(kind, r.tag), encode(r.id, Result(r)), "response")
            \/ ServerWrite(ErrorTag(kind), encode(r.id, ServerError), "response")
    /\ UNCHANGED <<pvars, svars>>
    /\ UNCHANGED <<kind, socket, sockState, buffer, nextId, pending, promises, emitted>>
    /\ UNCHANGED <<dispatched, listeners, terminals, fired>>

\* Terminals / watch sessions the sidecar pushes events about.
Subjects == {1}

\* The sidecar pushes an event: the n-th push carries n as its content.
ServerPush(tag) ==
    /\ sockState = "open"
    /\ Cardinality(WrittenAs("push")) < MaxPush
    /\ \E subject \in Subjects :
         ServerWrite(tag, encode(subject, Cardinality(WrittenAs("push")) + 1), "push")
    /\ UNCHANGED <<pvars, svars>>
    /\ UNCHANGED <<kind, socket, sockState, buffer, nextId, pending, promises, emitted, srvIn>>
    /\ UNCHANGED <<dispatched, listeners, terminals, fired>>

\* The tags the sidecar answers requests with.
AnswerTags(k) == { ResponseTag(k, reqTag) : reqTag \in RequestTags(k) } \cup {ErrorTag(k)}

\* Ids the sidecar has answered already.
Answered == { decode(written[i].payload).id : i \in WrittenAs("response") }

\* The sidecar writes a response or an error for an id that awaits none: an
\* id it answered before, or id 0, which no request carries.
ServerStray ==
    /\ sockState = "open"
    /\ Cardinality(WrittenAs("stray")) < MaxStray
    /\ \E tag \in AnswerTags(kind), id \in Answered \cup {0} :
         ServerWrite(tag, encode(id, StrayValue), "stray")
    /\ UNCHANGED <<pvars, svars>>
    /\ UNCHANGED <<kind, socket, sockState, buffer, nextId, pending, promises, emitted, srvIn>>
    /\ UNCHANGED <<dispatched, listeners, terminals, fired>>

\* Tags handleMessage has a case for, and tags it has none for: a request
\* tag, and tags of the other sidecar.
KnownTags(k) == ResolveTags(k) \cup {ErrorTag(k)} \cup PushTags(k)

UnknownTags(k) == {PTY_MSG_CREATE, PTY_MSG_CREATED, FS_MSG_FILE_CHANGE} \ KnownTags(k)

\* The sidecar writes a frame with a tag the client does not know; it may
\* carry the id of a request.
ServerUnknown ==
    /\ sockState = "open"
    /\ Cardinality(WrittenAs("unknown")) < MaxUnknown
    /\ \E tag \in UnknownTags(kind), id \in {0} \cup { promises[p].id : p \in DOMAIN promises } :
         ServerWrite(tag, encode(id, StrayValue), "unknown")
    /\ UNCHANGED <<pvars, svars>>
    /\ UNCHANGED <<kind, socket, sockState, buffer, nextId, pending, promises, emitted, srvIn>>
    /\ UNCHANGED <<dispatched, listeners, terminals, fired>>

\* The record handleMessage works on.
ClientState ==
    [pending |-> pending, promises |-> promises, emitted |-> emitted,
     dispatched |-> dispatched, listeners |-> listeners, terminals |-> terminals,
     fired |-> fired]

\* UplinkPtyService.createProcess after `await client.create(...)`: the
\* continuation runs when the chunk has been handled and stores the
\* terminal_id of every create that the chunk resolved.
createdTerminals(k, before, after) ==
    IF k # "pty" THEN {}
    ELSE { after[p].value.val : p \in { q \in DOMAIN after :
              /\ after[q].tag = PTY_MSG_CREATE
              /\ after[q].state = "resolved"
              /\ before[q].state = "pending" } }

\* socket.on('data', chunk => this.handleData(chunk)), for any cut of the stream
SocketData ==
    /\ sockState = "open"
    /\ \E n \in 1..Len(wire) :
         LET chunk == SubSeq(wire, 1, n)
             cut == handleDataLoop(buffer \o chunk, << >>)
             st == handleMessages(kind, ClientState, cut.msgs)
         IN  /\ wire' = SubSeq(wire, n + 1, Len(wire))
             /\ buffer' = cut.buffer
             /\ pending' = st.pending
             /\ promises' = st.promises
             /\ emitted' = st.emitted
             /\ dispatched' = st.dispatched
             /\ fired' = st.fired
             /\ terminals' = st.terminals \cup createdTerminals(kind, promises, st.promises)
    /\ UNCHANGED <<pvars, svars>>
    /\ UNCHANGED <<kind, socket, sockState, nextId, srvIn, written, listeners>>

\* An event the client emits about its socket.
SocketEvent(ev) == [ev |-> ev, a |-> 0, b |-> 0, to |-> listeners[ev]]

\* socket.on('error', ...): the socket is destroyed; 'close' follows
SocketError ==
    /\ sockState \in {"connecting", "open"}
    /\ sockState' = "destroyed"
    /\ emitted' = Append(emitted, SocketEvent("error"))
    /\ wire' = << >>
    /\ UNCHANGED <<pvars, svars>>
    /\ UNCHANGED <<kind, socket, buffer, nextId, pending, promises, srvIn>>
    /\ UNCHANGED <<written, dispatched, listeners, terminals, fired>>

\* the peer closes the connection
PeerClose ==
    /\ sockState = "open"
    /\ sockState' = "destroyed"
    /\ wire' = << >>
    /\ UNCHANGED <<pvars, svars>>
    /\ UNCHANGED <<kind, socket, buffer, nextId, pending, promises, emitted, srvIn>>
    /\ UNCHANGED <<written, dispatched, listeners, terminals, fired>>

\* close(): this.socket?.destroy(); this.socket = null
Close ==
    /\ socket = "set"
    /\ socket' = "null"
    /\ sockState' = IF sockState \in {"connecting", "open"} THEN "destroyed" ELSE sockState
    /\ wire' = << >>
    /\ UNCHANGED <<pvars, svars>>
    /\ UNCHANGED <<kind, buffer, nextId, pending, promises, emitted, srvIn>>
    /\ UNCHANGED <<written, dispatched, listeners, terminals, fired>>

\* socket.on('close', () => this.emit('close'))
SocketClose ==
    /\ sockState = "destroyed"
    /\ sockState' = "closed"
    /\ emitted' = Append(emitted, SocketEvent("close"))
    /\ UNCHANGED <<pvars, svars>>
    /\ UNCHANGED <<kind, socket, buffer, nextId, pending, promises, srvIn, wire>>
    /\ UNCHANGED <<written, dispatched, listeners, terminals, fired>>

\* The request a service makes first on its client: createProcess calls
\* client.create, the file system provider calls client.stat.
ServiceTag(k) == IF k = "pty" THEN PTY_MSG_CREATE ELSE FS_MSG_STAT

\* UplinkPtyService.createProcess / a provider call, MaxServiceCalls times
ServiceRequest ==
    /\ Len(promises) < MaxServiceCalls
    /\ Request(ServiceTag(kind))

\* Requests and their answers, in any order and any chunking.
ClientNext ==
    \/ Connect
    \/ ConnectOk
    \/ \E tag \in RequestTags(kind) : Request(tag)
    \/ ServerRespond
    \/ SocketData
    \/ SocketError
    \/ PeerClose
    \/ Close
    \/ SocketClose

\* The same, with a sidecar that also writes frames nobody waits for.
StrayNext ==
    \/ Connect
    \/ ConnectOk
    \/ \E tag \in RequestTags(kind) : Request(tag)
    \/ ServerRespond
    \/ ServerStray
    \/ SocketData
    \/ SocketError
    \/ PeerClose
    \/ Close
    \/ SocketClose

\* A service on its client: listeners come and go, the sidecar pushes events
\* between the answers.
EventsNext ==
    \/ Connect
    \/ ConnectOk
    \/ \E ev \in PushEvents(kind) : On(ev)
    \/ ServiceRequest
    \/ ServerRespond
    \/ \E tag \in PushTags(kind) : ServerPush(tag)
    \/ SocketData
    \/ SocketError
    \/ PeerClose
    \/ Close
    \/ SocketClose

SpecStray == ClientInit /\ [][StrayNext]_vars

\* A sidecar that is ahead of the client: between answers and pushes it
\* writes frames of a kind the client has no case for.
UnknownNext ==
    \/ Connect
    \/ ConnectOk
    \/ ServiceRequest
    \/ ServerRespond
    \/ \E tag \in PushTags(kind) : ServerPush(tag)
    \/ ServerUnknown
    \/ SocketData
    \/ SocketError
    \/ PeerClose
    \/ Close
    \/ SocketClose

SpecUnknown == ClientInit /\ [][UnknownNext]_vars

SpecEvents == ClientInit /\ [][EventsNext]_vars

SpecClient == ClientInit /\ [][ClientNext]_vars

(***************************************************************************)
(* Part I. Properties                                                      *)
(***************************************************************************)

\* C4: whatever the order in which responses arrive, a settled promise was
\* settled by the frame that carried its own request id, and a resolved one
\* holds the result of its own request; no caller gets another request's
\* result.
C4_OwnResponseOnly ==
    \A p \in DOMAIN promises :
        /\ promises[p].state = "resolved" =>
              /\ promises[p].value.id = promises[p].id
              /\ promises[p].value.val = Result(promises[p])
        /\ promises[p].state = "rejected" =>
              /\ promises[p].value.id = promises[p].id
              /\ promises[p].value.val \in {ServerError, NotConnected}

\* Two requests with different results are outstanding and the later one is
\* answered first: it is resolved while the earlier one still waits.
C4_Witness ==
    /\ Len(promises) >= 2
    /\ promises[1].state = "pending"
    /\ promises[1].id \in DOMAIN pending
    /\ promises[2].state = "resolved"
    /\ Result(promises[1]) # Result(promises[2])

\* C5 (as claimed): once the socket has closed, no request is still pending:
\* each was rejected as connection-lost.
C5_PendingRejectedOnClose ==
    sockState = "closed" =>
        /\ DOMAIN pending = {}
        /\ \A p \in DOMAIN promises : promises[p].state # "pending"

\* The (tag, payload) of a logged frame.
TagAndPayload(f) == [tag |-> f.tag, payload |-> f.payload]

Frames(log) == [i \in DOMAIN log |-> TagAndPayload(log[i])]

\* The byte stream of a sequence of frames.
RECURSIVE Bytes(_)
Bytes(frames) ==
    IF frames = << >> THEN << >>
    ELSE Frame(Head(frames).tag, Head(frames).payload) \o Bytes(Tail(frames))

IsPrefix(a, b) == Len(a) <= Len(b) /\ a = SubSeq(b, 1, Len(a))

\* The frames written and not yet dispatched.
Undispatched == SubSeq(Frames(written), Len(dispatched) + 1, Len(written))

\* C11: however the stream is cut into chunks, the frames handleData has
\* dispatched are the frames handleData cuts from the same stream in one
\* piece, each once and in wire order; what stays in the buffer is the
\* incomplete beginning of the next frame, and no byte is lost or
\* dispatched early.
C11_ChunkingInvisible ==
    LET onePiece == handleDataLoop(Bytes(Frames(written)), << >>) IN
    /\ onePiece.msgs = Frames(written)
    /\ onePiece.buffer = << >>
    /\ IsPrefix(Frames(dispatched), onePiece.msgs)
    /\ IsPrefix(buffer, Bytes(Undispatched))
    /\ buffer # << >> => Len(buffer) < Len(Frame(Head(Undispatched).tag, Head(Undispatched).payload))
    /\ sockState = "open" => buffer \o wire = Bytes(Undispatched)

\* One frame was dispatched and the chunk ended inside the length field of
\* the next frame's header.
C11_Witness ==
    /\ Len(dispatched) = 1
    /\ Len(written) = 2
    /\ Len(buffer) = 3
    /\ sockState = "open"

\* Dispatched frames that answer request id: responses and errors.
AnswersTo(id) ==
    { i \in DOMAIN dispatched :
        /\ dispatched[i].tag \in ResolveTags(kind) \cup {ErrorTag(kind)}
        /\ decode(dispatched[i].payload).id = id }

IssuedIds == { promises[p].id : p \in DOMAIN promises }

\* The map holds the issued ids that no response or error has answered yet.
C12_PendingIsUnanswered ==
    DOMAIN pending = { id \in IssuedIds : AnswersTo(id) = {} }

\* Of the frames that answer one id, at most one found an entry in the map.
C12_FirstAnswerOnly ==
    \A id \in IssuedIds \cup {0} :
        Cardinality({ i \in AnswersTo(id) : dispatched[i].matched }) <= 1

\* A response or error for an id that is not in the map changes neither the
\* map nor any promise, and emits nothing.
C12_LaterFrameChangesNothing ==
    \A tag \in ResolveTags(kind) \cup {ErrorTag(kind)}, id \in 0..nextId :
        id \notin DOMAIN pending =>
            LET st == handleMessage(kind, ClientState, tag, encode(id, StrayValue))
            IN  /\ st.pending = pending
                /\ st.promises = promises
                /\ st.emitted = emitted

\* A promise that was settled stays as it was settled.
C12_SettledOnce ==
    \A p \in DOMAIN promises :
        promises[p].state # "pending" => promises'[p] = promises[p]

\* C12: the pending map holds exactly the ids of the requests issued and not
\* yet answered by a response or an error; the first answer for an id
\* settles that caller once and removes the entry, and a later frame with
\* the same id changes nothing.
C12_PendingMap ==
    /\ [](C12_PendingIsUnanswered /\ C12_FirstAnswerOnly /\ C12_LaterFrameChangesNothing)
    /\ [][C12_SettledOnce]_vars

\* Request 1 was resolved by its response, and a second frame with id 1 was
\* dispatched afterwards and found no entry; the caller keeps its result.
C12_Witness ==
    /\ Len(promises) >= 1
    /\ promises[1].state = "resolved"
    /\ promises[1].value.val = Result(promises[1])
    /\ \E i, j \in AnswersTo(promises[1].id) :
          i < j /\ dispatched[i].matched /\ ~dispatched[j].matched

\* No two requests of the instance carry the same id, and the next id is
\* above every id used so far.
C13_IdsDistinct ==
    /\ \A p, q \in DOMAIN promises : p # q => promises[p].id # promises[q].id
    /\ \A p \in DOMAIN promises : promises[p].id < nextId
    /\ \A i \in DOMAIN pending : promises[pending[i]].id = i

\* nextId never goes back, and a new request takes the id nextId had.
C13_IdsCountUp ==
    /\ nextId' >= nextId
    /\ Len(promises') > Len(promises) =>
          /\ promises'[Len(promises')].id = nextId
          /\ nextId' > nextId

\* C13: every request of one client instance carries an id the instance
\* never used before, so no two pending requests share an id, whatever the
\* interleaving of the calls and their answers.
C13_FreshIds == []C13_IdsDistinct /\ [][C13_IdsCountUp]_vars

\* Two calls of different kinds are outstanding at once, with ids 1 and 2.
C13_Witness ==
    /\ DOMAIN pending = {1, 2}
    /\ promises[pending[1]].state = "pending"
    /\ promises[pending[2]].state = "pending"
    /\ promises[pending[1]].tag # promises[pending[2]].tag

\* The frames dispatched in this step that answer an id the map did not hold.
UnmatchedNow ==
    { i \in (DOMAIN dispatched') \ (DOMAIN dispatched) :
        /\ dispatched'[i].tag \in ResolveTags(kind) \cup {ErrorTag(kind)}
        /\ ~dispatched'[i].matched }

\* C14 (as claimed): when handleMessage gets a response or error whose id
\* matches no pending request, the client reports an error in that call
\* (it emits 'error'), and no caller's promise is settled by the frame.
C14_UnmatchedIsReported ==
    [][ UnmatchedNow # {} =>
          /\ \E j \in (DOMAIN emitted') \ (DOMAIN emitted) : emitted'[j].ev = "error"
          /\ \A p \in DOMAIN promises :
                promises'[p] # promises[p] => promises'[p].value.val # StrayValue ]_vars

\* An error frame for a pending id X rejects the promise of X with the
\* sidecar's message, removes X from the map and touches nothing else.
C15_OnlyOwnPromise ==
    \A X \in DOMAIN pending :
        LET st == handleMessage(kind, ClientState, ErrorTag(kind), encode(X, ServerError))
        IN  /\ DOMAIN st.pending = (DOMAIN pending) \ {X}
            /\ \A i \in DOMAIN st.pending : st.pending[i] = pending[i]
            /\ \A p \in DOMAIN promises : p # pending[X] => st.promises[p] = promises[p]
            /\ promises[pending[X]].state = "pending" =>
                  /\ st.promises[pending[X]].state = "rejected"
                  /\ st.promises[pending[X]].value = [id |-> X, val |-> ServerError]
            /\ st.emitted = emitted

\* The promises an error response rejects in this step.
RejectedNow ==
    { p \in DOMAIN promises :
        /\ promises[p].state = "pending"
        /\ promises'[p].state = "rejected"
        /\ promises'[p].value.val = ServerError }

\* The step that rejects a promise leaves the socket as it is, and a request
\* made on an open socket is sent and waits for its answer, whatever was
\* rejected before.
C15_SessionGoesOn ==
    /\ RejectedNow # {} =>
          /\ socket' = socket /\ sockState' = sockState
          /\ \A p \in RejectedNow : promises'[p].value.id = promises[p].id
    /\ (Len(promises') > Len(promises) /\ socket = "set" /\ sockState = "open") =>
          LET new == promises'[Len(promises')]
          IN  /\ new.state = "pending"
              /\ new.id \in DOMAIN pending'
              /\ [id |-> new.id, tag |-> new.tag] \in srvIn'

\* C15: an error response for request X rejects only the promise of X, with
\* the server's message; the socket stays open, every other pending request
\* stays pending, and later requests on the client are sent as before.
C15_ErrorIsLocal == []C15_OnlyOwnPromise /\ [][C15_SessionGoesOn]_vars

\* Request 1 was rejected by the sidecar's error while request 2 is still
\* waiting on the open socket.
C15_Witness ==
    /\ Len(promises) = 2
    /\ promises[1].state = "rejected"
    /\ promises[1].value.val = ServerError
    /\ promises[2].state = "pending"
    /\ DOMAIN pending = {promises[2].id}
    /\ sockState = "open"

\* The event handleMessage emits for a push frame.
PushEvent(tag, payload, to) ==
    [ev |-> EventName(tag), a |-> decode(payload).id, b |-> decode(payload).val, to |-> to]

\* In every state, a push frame of any class is emitted once, to exactly
\* the listeners registered for its class now, and changes neither the map
\* nor any promise.
C16_PushToAllListeners ==
    \A tag \in PushTags(kind), subject \in Subjects, content \in 1..MaxPush :
        LET payload == encode(subject, content)
            st == handleMessage(kind, ClientState, tag, payload)
        IN  /\ st.emitted = Append(emitted, PushEvent(tag, payload, listeners[EventName(tag)]))
            /\ st.pending = pending
            /\ st.promises = promises

PushesDispatched == SelectSeq(dispatched, LAMBDA f : f.tag \in PushTags(kind))

PushesEmitted == SelectSeq(emitted, LAMBDA e : e.ev \in PushEvents(kind))

\* The push events emitted are the push frames dispatched, one for one, each
\* to listeners that are registered for its class.
C16_OneEventPerPush ==
    /\ Len(PushesEmitted) = Len(PushesDispatched)
    /\ \A i \in DOMAIN PushesEmitted :
          /\ PushesEmitted[i] =
                PushEvent(PushesDispatched[i].tag, PushesDispatched[i].payload, PushesEmitted[i].to)
          /\ PushesEmitted[i].to \subseteq listeners[PushesEmitted[i].ev]

\* C16: a push frame is delivered to every listener registered for its event
\* class at that moment and leaves the pending-request map unchanged: it
\* never resolves, rejects or removes a pending request.
C16_PushLeavesPending == C16_PushToAllListeners /\ C16_OneEventPerPush

\* A push went to both listeners of its class while the other class had
\* none, and the request that was outstanding is still waiting.
C16_Witness ==
    /\ Len(emitted) = 1
    /\ emitted[1].to = {1, 2}
    /\ \E ev \in PushEvents(kind) : listeners[ev] = {}
    /\ Len(promises) = 1
    /\ promises[1].state = "pending"
    /\ DOMAIN pending = {1}
    /\ [id |-> 1, tag |-> promises[1].tag] \notin srvIn

\* The places in the arrival order of the data frame a fired event came from.
ArrivalsOf(f) ==
    { k \in DOMAIN dispatched :
        /\ dispatched[k].tag = PTY_MSG_DATA
        /\ decode(dispatched[k].payload) = [id |-> f.id, val |-> f.event] }

\* C17: the data events UplinkPtyService fires on onProcessData for one
\* terminal are fired in the order in which their frames arrived on the
\* socket, each frame at most once, whatever the chunking and whatever
\* requests and responses come between them.
C17_DataInArrivalOrder ==
    /\ \A i \in DOMAIN fired : Cardinality(ArrivalsOf(fired[i])) = 1
    /\ \A i, j \in DOMAIN fired :
          (i < j /\ fired[i].id = fired[j].id) =>
              \A k \in ArrivalsOf(fired[i]), l \in ArrivalsOf(fired[j]) : k < l

\* The create was answered and two data frames of the new terminal were
\* fired, the first before the second.
C17_Witness ==
    /\ kind = "pty"
    /\ Len(fired) = 2
    /\ fired[1].id = fired[2].id
    /\ fired[1].event = 1
    /\ fired[2].event = 2
    /\ promises[1].state = "resolved"

(***************************************************************************)
(* Part I. UplinkPtyService starts a terminal                              *)
(*                                                                         *)
(* _getClient() has run: the client is connected and the service's         *)
(* listeners are registered.  The service creates a terminal, its caller   *)
(* starts it, and the sidecar pushes the terminal's output once it has     *)
(* answered the create.                                                    *)
(***************************************************************************)
MaxStarts == 2   \* calls of start(id)

TerminalInit ==
    /\ kind = "pty"
    /\ socket = "set"
    /\ sockState = "open"
    /\ buffer = << >>
    /\ nextId = 1
    /\ pending = << >>
    /\ promises = << >>
    /\ emitted = << >>
    /\ srvIn = {}
    /\ wire = << >>
    /\ written = << >>
    /\ dispatched = << >>
    /\ listeners = [ev \in Events |->
                      IF ev \in {"data", "exit", "error", "close"} THEN {ServiceListener} ELSE {}]
    /\ terminals = {}
    /\ fired = << >>
    /\ ProtocolIdle
    /\ SessionIdle

\* The created responses the sidecar has written, as positions of written.
CreatedWritten == { i \in DOMAIN written : written[i].tag = PTY_MSG_CREATED }

\* The shell of a created terminal writes output.
TerminalOutput ==
    /\ CreatedWritten # {}
    /\ ServerPush(PTY_MSG_DATA)

\* start(id): const entry = this._terminals.get(id); if (!entry) return
\* { message: 'Terminal not found' }; this._onProcessReady.fire({ id, ... }).
\* The event is logged with the number of onProcessData events before it.
Start(id) ==
    /\ Len(ready) < MaxStarts
    /\ ready' = IF id \in terminals
                THEN Append(ready, [id |-> id, at |-> Len(fired)])
                ELSE ready
    /\ UNCHANGED <<cvars, svars, hvars, proto, ipc, ser, link, hs>>

TerminalNext ==
    \/ ServiceRequest
    \/ ServerRespond
    \/ TerminalOutput
    \/ SocketData
    \/ \E id \in Subjects : Start(id)

SpecTerminal == TerminalInit /\ [][TerminalNext]_vars

\* C29 (as claimed): for every terminal id returned by createProcess,
\* onProcessReady is fired only by start(id), and no onProcessData event for
\* that id is fired before its onProcessReady.
C29_ReadyBeforeData ==
    /\ \A j \in DOMAIN ready : ready[j].id \in Subjects
    /\ \A i \in DOMAIN fired :
          \E j \in DOMAIN ready : ready[j].id = fired[i].id /\ ready[j].at < i

\* The data frames handled so far that the sidecar wrote for a terminal
\* after the created response that announced it.
OutputHandled ==
    { i \in DOMAIN dispatched :
        /\ written[i].tag = PTY_MSG_DATA
        /\ \E j \in CreatedWritten :
              j < i /\ decode(written[j].payload).val = decode(written[i].payload).id }

\* C30 (as claimed): no terminal output is lost at creation: every data
\* frame the PTY server sends for a terminal after its created response,
\* including one that arrives in the same socket chunk as that response, is
\* forwarded to onProcessData rather than dropped because the terminal id
\* is not registered yet.
C30_NoOutputLost ==
    \A i \in OutputHandled :
        \E f \in DOMAIN fired :
            /\ fired[f].id = decode(written[i].payload).id
            /\ fired[f].event = decode(written[i].payload).val

\* The frames handed to handleMessage in this step.
DispatchedNow == SubSeq(dispatched', Len(dispatched) + 1, Len(dispatched'))

HasKnownTag(f) == f.tag \in KnownTags(kind)

\* Every frame written is cut from the buffer and handed to handleMessage in
\* wire order, the unknown ones included, and a chunk that ends the stream
\* leaves none behind: the frames after an unknown one are processed.
C28_ConsumedInOrder ==
    /\ IsPrefix(Frames(dispatched'), Frames(written))
    /\ (sockState = "open" /\ wire # << >> /\ wire' = << >> /\ sockState' = "open") =>
          Frames(dispatched') = Frames(written)

\* A promise is settled only by a frame with a known tag that carries its id.
C28_SettlesNothing ==
    \A p \in DOMAIN promises :
        promises'[p] # promises[p] =>
            \E i \in DOMAIN DispatchedNow :
                /\ DispatchedNow[i].tag \in ResolveTags(kind) \cup {ErrorTag(kind)}
                /\ decode(DispatchedNow[i].payload).id = promises[p].id

\* The events emitted while frames are handled are the pushes among them,
\* one each, and the socket is left as it is.
C28_EmitsNothing ==
    DispatchedNow # << >> =>
        /\ Len(emitted') - Len(emitted)
              = Len(SelectSeq(DispatchedNow, LAMBDA f : f.tag \in PushTags(kind)))
        /\ \A i \in (DOMAIN emitted') \ (DOMAIN emitted) : emitted'[i].ev \in PushEvents(kind)
        /\ sockState' = sockState /\ socket' = socket

\* What the client holds after the step is what it would hold had the
\* frames with unknown tags not been in the stream.
C28_AsIfAbsent ==
    DispatchedNow # << >> =>
        LET st == handleMessages(kind, ClientState, SelectSeq(DispatchedNow, HasKnownTag))
        IN  /\ pending' = st.pending
            /\ promises' = st.promises
            /\ emitted' = st.emitted
            /\ fired' = st.fired

\* C28: a frame whose tag is not one of the client's known response or push
\* tags is ignored: it is consumed from the buffer, settles no pending
\* request, emits no event, raises no error, and the frames after it are
\* still processed.
C28_UnknownTagIgnored ==
    [][C28_ConsumedInOrder /\ C28_SettlesNothing /\ C28_EmitsNothing /\ C28_AsIfAbsent]_vars

\* An unknown frame that carried the id of the pending request was handled
\* while the request stayed pending, and the response written after it has
\* then resolved the request.
C28_Witness ==
    /\ Len(dispatched) = 2
    /\ dispatched[1].tag \in UnknownTags(kind)
    /\ dispatched[1].matched
    /\ dispatched[2].tag \in ResolveTags(kind)
    /\ promises[1].state = "resolved"
    /\ pending = << >>

(***************************************************************************)
(* Part II. One PersistentProtocol endpoint under arbitrary arrivals       *)
(*                                                                         *)
(* The endpoint's peer and the network are its environment: any envelope   *)
(* the peer can have written arrives at any time, in any order, any number *)
(* of times or never.  The peer is honest: it acknowledges only ids that   *)
(* were sent to it.                                                        *)
(***************************************************************************)
ClientIdle ==
    /\ kind = "pty"
    /\ socket = "null"
    /\ sockState = "none"
    /\ buffer = << >>
    /\ nextId = 1
    /\ pending = << >>
    /\ promises = << >>
    /\ emitted = << >>
    /\ srvIn = {}
    /\ wire = << >>
    /\ written = << >>
    /\ dispatched = << >>
    /\ listeners = NoListeners
    /\ terminals = {}
    /\ fired = << >>

ProtoInit ==
    /\ ClientIdle
    /\ ProtocolIdle
    /\ SessionIdle

ProtoSides == {"s"}

\* Data envelopes carry an id from 1, every other envelope id 0; the ack is
\* any id that was written to the peer.
Arrivals(p) ==
    { ProtocolMessage(Regular, i, a) : i \in 1..MaxPeerMsgs, a \in 0..p.flushedId }
    \cup { ProtocolMessage(t, 0, a) : t \in MessageTypes \ {Regular}, a \in 0..p.flushedId }

Step(side, q) ==
    /\ proto' = [proto EXCEPT ![side] = q]
    /\ UNCHANGED <<cvars, svars, hvars, ipc, ser, link, hs, ready>>

PSend(side) ==
    /\ ~proto[side].isDisposed
    /\ proto[side].outgoingMsgId < MaxMsgs
    /\ Step(side, send(proto[side]))

PSendControl(side) ==
    /\ ~proto[side].isDisposed
    /\ Step(side, sendControl(proto[side]))

\* the acknowledge timer
PSendAck(side) ==
    /\ ~proto[side].isDisposed
    /\ Step(side, sendAck(proto[side]))

\* the keep-alive timer
PSendKeepAlive(side) ==
    /\ ~proto[side].isDisposed
    /\ Step(side, sendKeepAlive(proto[side]))

PSendPause(side) ==
    /\ ~proto[side].isDisposed
    /\ Step(side, sendPause(proto[side]))

PSendResume(side) ==
    /\ ~proto[side].isDisposed
    /\ Step(side, sendResume(proto[side]))

\* the socket reader hands _receiveMessage an envelope
PReceive(side) ==
    /\ ~proto[side].isDisposed
    /\ \E msg \in Arrivals(proto[side]) :
          Step(side, receiveMessage(proto[side], msg))

\* acceptReconnection(socket, dataChunk)
PAcceptReconnection(side) ==
    /\ ~proto[side].isDisposed
    /\ \E newSocket \in (1..MaxSockets) \ {proto[side].socket} :
          Step(side, endAcceptReconnection(
                         beginAcceptReconnection(proto[side], newSocket)))

ProtoNext ==
    \E side \in ProtoSides :
        \/ PSend(side)
        \/ PSendControl(side)
        \/ PSendAck(side)
        \/ PSendKeepAlive(side)
        \/ PSendPause(side)
        \/ PSendResume(side)
        \/ PReceive(side)
        \/ PAcceptReconnection(side)

SpecProto == ProtoInit /\ [][ProtoNext]_vars

(***************************************************************************)
(* Part II. Properties of the endpoint                                     *)
(***************************************************************************)
P == proto["s"]

HasType(out, t) == \E i \in 1..Len(out) : out[i].type = t

\* C1: the ids handed to the Channel Multiplexer are 1, 2, 3, ... in order
\* with none skipped, whatever arrives; and a data envelope whose id is
\* greater than last-received + 1 is not delivered and makes the receiver
\* write a replay-request.
C1_DeliveredInOrder == \A i \in 1..Len(P.delivered) : P.delivered[i] = i

C1_GapRequestsReplay ==
    (/\ proto'["s"].lastOp = "receive"
     /\ proto'["s"].lastIn.type = Regular
     /\ proto'["s"].lastIn.id > P.incomingMsgId + 1)
    => /\ proto'["s"].delivered = P.delivered
       /\ proto'["s"].incomingMsgId = P.incomingMsgId
       /\ HasType(proto'["s"].out, ReplayRequest)

C1_InOrderDelivery == []C1_DeliveredInOrder /\ [][C1_GapRequestsReplay]_vars

\* After 1 was delivered, 3 arrives: it is dropped and a replay is requested.
C1_Witness ==
    /\ P.lastOp = "receive"
    /\ P.lastIn.type = Regular
    /\ P.lastIn.id = 3
    /\ P.delivered = <<1>>
    /\ HasType(P.out, ReplayRequest)

\* C2: no id is handed to the Channel Multiplexer twice; an arriving data
\* envelope whose id is not greater than last-received is discarded and
\* leaves last-received as it was.
C2_NoIdTwice ==
    \A i, j \in 1..Len(P.delivered) : i # j => P.delivered[i] # P.delivered[j]

C2_DuplicateDiscarded ==
    (/\ proto'["s"].lastOp = "receive"
     /\ proto'["s"].lastIn.type = Regular
     /\ proto'["s"].lastIn.id <= P.incomingMsgId)
    => /\ proto'["s"].delivered = P.delivered
       /\ proto'["s"].incomingMsgId = P.incomingMsgId

C2_AtMostOnce == []C2_NoIdTwice /\ [][C2_DuplicateDiscarded]_vars

\* Ids 1 and 2 were delivered and id 1 has just arrived again and was dropped.
C2_Witness ==
    /\ P.lastOp = "receive"
    /\ P.lastIn.type = Regular
    /\ P.lastIn.id = 1
    /\ P.delivered = <<1, 2>>

\* The envelopes send() built that the peer has not acknowledged, oldest first.
Unacknowledged(p) == SubSeq(p.sent, p.outgoingAckId + 1, p.outgoingMsgId)

\* C3: accepting a reconnection writes, to the new socket, first a pure ack
\* carrying the current last-received id and then exactly the envelopes that
\* are still unacknowledged, as first sent and in id order; nothing that was
\* acknowledged is written again.
C3_AckThenReplay ==
    P.lastOp = "acceptReconnection" =>
        /\ P.out = <<ProtocolMessage(Ack, 0, P.incomingMsgId)>> \o Unacknowledged(P)
        /\ \A i \in 2..Len(P.out) :
              /\ P.out[i].type = Regular
              /\ P.out[i].id = P.outgoingAckId + i - 1

\* A reconnection after id 1 was acknowledged and with id 2 still queued, on
\* an endpoint that has itself received a message.
C3_Witness ==
    /\ P.lastOp = "acceptReconnection"
    /\ P.outgoingAckId = 1
    /\ P.outgoingMsgId = 2
    /\ P.incomingMsgId >= 1
    /\ Len(P.out) = 2

\* C6: the queue holds exactly the sent envelopes with id greater than
\* last-outgoing-ack-id, oldest first; envelopes leave it only on receiving an
\* ack that covers them, and a stale or zero ack removes nothing and does not
\* lower last-outgoing-ack-id.
C6_QueueIsUnacknowledged == P.outgoingUnackMsg = Unacknowledged(P)

C6_RemovedOnlyByAck ==
    /\ proto'["s"].outgoingAckId >= P.outgoingAckId
    /\ (proto'["s"].lastOp = "receive" /\ proto'["s"].lastIn.ack <= P.outgoingAckId)
         => /\ proto'["s"].outgoingUnackMsg = P.outgoingUnackMsg
            /\ proto'["s"].outgoingAckId = P.outgoingAckId
    /\ \A i \in 1..Len(P.outgoingUnackMsg) :
         (\A j \in 1..Len(proto'["s"].outgoingUnackMsg) :
              proto'["s"].outgoingUnackMsg[j] # P.outgoingUnackMsg[i])
         => /\ proto'["s"].lastOp = "receive"
            /\ proto'["s"].lastIn.ack >= P.outgoingUnackMsg[i].id

C6_UnackQueue == []C6_QueueIsUnacknowledged /\ [][C6_RemovedOnlyByAck]_vars

\* Ack 1 was received, then an older envelope carrying ack 0 arrived while
\* id 2 was still queued.
C6_Witness ==
    /\ P.lastOp = "receive"
    /\ P.lastIn.ack = 0
    /\ P.outgoingAckId = 1
    /\ Len(P.outgoingUnackMsg) = 1
    /\ P.outgoingUnackMsg[1].id = 2

\* C8: the data messages of a session carry ids 1, 2, 3, ...; the outgoing id
\* moves only in send() and only up by one, so never on a reconnection or a
\* replay; and every envelope that is not a data message is written with id 0.
C8_IdsCountUp ==
    /\ Len(P.sent) = P.outgoingMsgId
    /\ \A i \in 1..Len(P.sent) : P.sent[i].id = i
    /\ \A i \in 1..Len(P.out) :
         IF P.out[i].type = Regular
         THEN P.out[i].id \in 1..P.outgoingMsgId
         ELSE P.out[i].id = 0

C8_OnlySendAdvances ==
    proto'["s"].outgoingMsgId # P.outgoingMsgId
    => /\ proto'["s"].lastOp = "send"
       /\ proto'["s"].outgoingMsgId = P.outgoingMsgId + 1

C8_IdsNeverReused == []C8_IdsCountUp /\ [][C8_OnlySendAdvances]_vars

\* A second message is sent on the second socket after the first was
\* acknowledged: it gets id 2.
C8_Witness ==
    /\ P.lastOp = "send"
    /\ P.socket = 2
    /\ P.outgoingAckId = 1
    /\ P.outgoingMsgId = 2
    /\ P.outgoingUnackMsg = <<P.sent[2]>>

\* The endpoint this step leaves behind, and whether the step read a resume.
Pnext == proto'["s"]

ResumedNow == Pnext.lastOp = "receive" /\ Pnext.lastIn.type = Resume

\* While the writer is paused and stays on its connection, no step but the
\* receipt of resume writes a data envelope or lifts the pause.
C21_NoDataWhilePaused ==
    (P.isPaused /\ Pnext.socket = P.socket /\ ~ResumedNow) =>
        /\ ~HasType(Pnext.out, Regular)
        /\ Pnext.isPaused

\* The keep-alive and the pure ack of a paused endpoint are written at once,
\* carrying the current ack value.
C21_KeepAliveAndAckFlow ==
    P.isPaused =>
        /\ Pnext.lastOp = "sendKeepAlive" =>
              Pnext.out = <<ProtocolMessage(KeepAlive, 0, P.incomingAckId)>>
        /\ Pnext.lastOp = "sendAck" =>
              Pnext.out = <<ProtocolMessage(Ack, 0, P.incomingAckId)>>

\* A data message sent during the pause takes the next id and joins the
\* queue, and nothing is written for it.
C21_QueuedWhilePaused ==
    (P.isPaused /\ Pnext.lastOp = "send") =>
        /\ Pnext.outgoingMsgId = P.outgoingMsgId + 1
        /\ Pnext.outgoingUnackMsg =
              Append(P.outgoingUnackMsg,
                     ProtocolMessage(Regular, P.outgoingMsgId + 1, P.incomingAckId))
        /\ Pnext.out = << >>

\* Resume writes the data envelopes built during the pause, all of them and
\* nothing else, as built and in id order.
C21_WrittenOnResume ==
    (P.isPaused /\ ResumedNow) =>
        /\ ~Pnext.isPaused
        /\ Pnext.out = SubSeq(P.sent, P.flushedId + 1, P.outgoingMsgId)
        /\ \A i \in 1..Len(Pnext.out) : Pnext.out[i].id = P.flushedId + i

\* An endpoint that is not paused has written every data envelope it built.
C21_NothingHeldWhenRunning == ~P.isPaused => P.flushedId = P.outgoingMsgId

\* C21: after a side receives pause it writes no data envelope to the
\* connection until it receives resume, while keep-alive and ack envelopes
\* are still written; data messages sent during the pause get ids and are
\* queued, and resume writes them in id order.
C21_PauseHoldsData ==
    /\ []C21_NothingHeldWhenRunning
    /\ [][ /\ C21_NoDataWhilePaused
           /\ C21_KeepAliveAndAckFlow
           /\ C21_QueuedWhilePaused
           /\ C21_WrittenOnResume ]_vars

\* Two data messages were sent during a pause and resume has just written
\* them, 1 before 2.
C21_Witness ==
    /\ P.lastOp = "receive"
    /\ P.lastIn.type = Resume
    /\ ~P.isPaused
    /\ Len(P.out) = 2
    /\ P.out[1].id = 1
    /\ P.out[2].id = 2
    /\ Len(P.outgoingUnackMsg) = 2

(***************************************************************************)
(* Part II. Calls through the channel layer                                *)
(*                                                                         *)
(* The protocol below delivers every message once and in order (C1, C2),   *)
(* so the two directions are queues.  What a method does is its own        *)
(* business: it returns, throws, or gives up when its call was cancelled.  *)
(***************************************************************************)
IpcStep(c) ==
    /\ ipc' = c
    /\ UNCHANGED <<cvars, svars, hvars, proto, ser, link, hs, ready>>

IpcCall(channelName, name) ==
    /\ ipc.lastRequestId < MaxChannelCalls
    /\ IpcStep(call(ipc, channelName, name))

IpcCancel(id) ==
    /\ id + 1 \in DOMAIN ipc.calls
    /\ ipc.calls[id + 1].state = "pending"
    /\ ~ipc.calls[id + 1].cancelled
    /\ IpcStep(cancel(ipc, id))

IpcServerReceive ==
    /\ ipc.toServer # << >>
    /\ IpcStep(onRawRequest([ipc EXCEPT !.toServer = Tail(@)], Head(ipc.toServer)))

IpcSettle(id, outcome) ==
    /\ id \in ipc.activeRequests
    /\ outcome = "canceled" => id \in ipc.cancelled
    /\ IpcStep(then(ipc, id, outcome))

IpcClientReceive ==
    /\ ipc.toClient # << >>
    /\ IpcStep(onResponse([ipc EXCEPT !.toClient = Tail(@)], Head(ipc.toClient)))

ChannelNext ==
    \/ \E channelName \in ChannelNames, name \in MethodNames : IpcCall(channelName, name)
    \/ \E id \in 0..(MaxChannelCalls - 1) : IpcCancel(id)
    \/ IpcServerReceive
    \/ \E id \in 0..(MaxChannelCalls - 1), outcome \in Outcomes : IpcSettle(id, outcome)
    \/ IpcClientReceive

SpecChannel == ProtoInit /\ [][ChannelNext]_vars

(***************************************************************************)
(* Part II. Properties of the channel layer                                *)
(***************************************************************************)
ResponsesTo(id) == { k \in DOMAIN ipc.responses : ipc.responses[k].id = id }

Received == { ipc.received[i] : i \in DOMAIN ipc.received }

\* A call whose channel is not registered or whose method the channel lacks.
NamesNothing(c) == ~(c.channelName \in RegisteredChannels /\ c.name \in MethodsOf(c.channelName))

C23_ExactlyOneResponse ==
    /\ \A id \in Received :
          Cardinality(ResponsesTo(id)) = (IF id \in ipc.activeRequests THEN 0 ELSE 1)
    /\ \A k \in DOMAIN ipc.responses :
          /\ ipc.responses[k].id \in Received
          /\ ipc.responses[k].type \in {PromiseSuccess, PromiseError}
    /\ \A i \in DOMAIN ipc.calls :
          ipc.calls[i].state # "pending" =>
              \E k \in ResponsesTo(ipc.calls[i].id) :
                  /\ ipc.responses[k].data = ipc.calls[i].data
                  /\ (ipc.responses[k].type = PromiseSuccess) = (ipc.calls[i].state = "resolved")

\* One call was cancelled and its method gave up, the other threw; each has
\* its one response and both callers are settled.
C23_Witness ==
    /\ Len(ipc.responses) = 2
    /\ \E a, b \in 0..1 :
          /\ a # b
          /\ ipc.calls[a + 1].cancelled
          /\ ipc.calls[a + 1].state = "rejected"
          /\ ipc.calls[a + 1].data = "canceled"
          /\ ipc.calls[b + 1].state = "rejected"
          /\ ipc.calls[b + 1].data = "threw"
    /\ ipc.activeRequests = {}

(***************************************************************************)
(* Part II. Two PersistentProtocol endpoints on a socket that stays up     *)
(*                                                                         *)
(* The socket delivers what was written, in order.  The acknowledge timer  *)
(* of a side runs while it has accepted a message whose id it has not yet  *)
(* written as an ack.                                                      *)
(***************************************************************************)
MaxPauses == 1   \* times a side pauses its peer, both sides together

RECURSIVE HighestAck(_, _)
HighestAck(msgs, a) ==
    IF msgs = << >> THEN a
    ELSE HighestAck(Tail(msgs), IF Head(msgs).ack > a THEN Head(msgs).ack ELSE a)

\* What side wrote in its step goes onto the socket towards the other side.
OnSocket(l, side, q) ==
    [l EXCEPT !.to[Other(side)] = @ \o q.out,
              !.ackWritten[side] = HighestAck(q.out, @)]

LinkStep(side, q, l) ==
    /\ proto' = [proto EXCEPT ![side] = q]
    /\ link' = OnSocket(l, side, q)
    /\ UNCHANGED <<cvars, svars, hvars, ipc, ser, hs, ready>>

LSend(side) ==
    /\ proto[side].outgoingMsgId < MaxMsgs
    /\ LinkStep(side, send(proto[side]), link)

\* AcknowledgeTime has passed since a message was accepted and no envelope
\* has carried its ack.
LAckTimer(side) ==
    /\ proto[side].incomingAckId > link.ackWritten[side]
    /\ LinkStep(side, sendAck(proto[side]), link)

\* the socket reader hands _receiveMessage the next envelope
LReceive(side) ==
    /\ link.to[side] # << >>
    /\ LinkStep(side, receiveMessage(proto[side], Head(link.to[side])),
                [link EXCEPT !.to[side] = Tail(@)])

LPause(side) ==
    /\ ~link.pausing[side]
    /\ link.pauses < MaxPauses
    /\ LinkStep(side, sendPause(proto[side]),
                [link EXCEPT !.pausing[side] = TRUE, !.pauses = @ + 1])

LResume(side) ==
    /\ link.pausing[side]
    /\ LinkStep(side, sendResume(proto[side]), [link EXCEPT !.pausing[side] = FALSE])

LinkNext ==
    \E side \in Sides :
        \/ LSend(side)
        \/ LAckTimer(side)
        \/ LReceive(side)
        \/ LPause(side)
        \/ LResume(side)

SpecLink == ProtoInit /\ [][LinkNext]_vars

\* The socket reader and the acknowledge timer run, and a side that paused
\* its peer resumes it.
LinkFairness ==
    \A side \in Sides :
        /\ WF_vars(LReceive(side))
        /\ WF_vars(LAckTimer(side))
        /\ WF_vars(LResume(side))

SpecLinkFair == SpecLink /\ LinkFairness

\* An envelope that send() builds carries the id of the last accepted
\* message as its ack.
C26_NextEnvelopeCarriesAck ==
    \A side \in Sides :
        (proto'[side].lastOp = "send" /\ proto'[side].outgoingMsgId # proto[side].outgoingMsgId) =>
            proto'[side].sent[Len(proto'[side].sent)].ack = proto[side].incomingMsgId

\* The only envelope the acknowledge timer writes is a pure ack with the id
\* of the last accepted message, and it writes it only if no written
\* envelope has carried that id.
C26_PureAckWhenOwed ==
    \A side \in Sides :
        (proto'[side].lastOp = "sendAck" /\ proto'[side] # proto[side]) =>
            /\ proto'[side].out = <<ProtocolMessage(Ack, 0, proto[side].incomingMsgId)>>
            /\ link.ackWritten[side] < proto[side].incomingMsgId

\* Every accepted data message is acknowledged to its sender.
C26_AcceptedIsAcknowledged ==
    \A side \in Sides : \A i \in 1..MaxMsgs :
        (proto[side].incomingMsgId >= i) ~> (proto[Other(side)].outgoingAckId >= i)

\* With no new data sent, the Outgoing Unacknowledged Queue becomes empty.
C26_QueueDrains ==
    \A side \in Sides : <>[](proto[side].outgoingUnackMsg = << >>)

HandshakeStep(v) ==
    /\ hs' = v
    /\ UNCHANGED <<cvars, svars, hvars, proto, ipc, ser, link, ready>>

\* GET /?reconnectionToken=t&reconnection=recon, 101 Switching Protocols
Upgrade(s, t, recon) ==
    /\ hs.conns[s].state = "free"
    /\ \A r \in 1..(s - 1) : hs.conns[r].state # "free"
    /\ HandshakeStep([hs EXCEPT !.conns[s] =
           [@ EXCEPT !.state = "WaitingForAuth", !.isReconnection = recon,
                     !.reconnectionToken = t]])

AuthMessage(s, valid) ==
    /\ hs.conns[s].state = "WaitingForAuth"
    /\ HandshakeStep([hs EXCEPT !.conns[s] = onAuth(@, valid)])

ConnectionTypeMessage(s, commitValid, signedValid) ==
    /\ hs.conns[s].state = "WaitingForConnectionType"
    /\ HandshakeStep(onConnectionType(hs, s, commitValid, signedValid))

DataMessage(s) ==
    /\ hs.conns[s].state # "free"
    /\ hs.conns[s].arrived < MaxData
    /\ HandshakeStep([hs EXCEPT !.conns[s] = onData(@, @.arrived + 1)])

HandshakeNext ==
    \E s \in 1..MaxUpgrades :
        \/ \E t \in HandshakeTokens, recon \in BOOLEAN : Upgrade(s, t, recon)
        \/ \E valid \in BOOLEAN : AuthMessage(s, valid)
        \/ \E commitValid \in BOOLEAN, signedValid \in BOOLEAN :
              ConnectionTypeMessage(s, commitValid, signedValid)
        \/ DataMessage(s)

SpecHandshake == ProtoInit /\ [][HandshakeNext]_vars

BoundTo(s) == { t \in HandshakeTokens : hs.managementConnections[t] = s }

\* The handshake of a connection has completed successfully: auth was
\* valid and answered by sign, connectionType was valid and answered by ok.
Completed(h) ==
    /\ h.auth /\ h.commit /\ h.signedData
    /\ h.sent = <<"sign", "ok">>

\* A connection has had data accepted only if its handshake completed, and
\* a session is bound only to such a connection.
C27_DataOnlyAfterHandshake ==
    \A s \in 1..MaxUpgrades :
        /\ hs.conns[s].accepted # << >> => Completed(hs.conns[s])
        /\ BoundTo(s) # {} => Completed(hs.conns[s])

\* A rejected connection was told so, for one of the reasons of the
\* handshake, has had no data accepted and is bound to no session.
C27_RejectedDeliversNothing ==
    \A s \in 1..MaxUpgrades :
        hs.conns[s].state = "Rejected" =>
            /\ hs.conns[s].accepted = << >>
            /\ BoundTo(s) = {}
            /\ hs.conns[s].sent[Len(hs.conns[s].sent)] = "error"
            /\ hs.conns[s].reason \in {"auth mismatch", "version mismatch",
                                       "Unauthorized client refused",
                                       "Unknown reconnection token",
                                       "Duplicate reconnection token"}
            /\ hs.conns[s].reason = "auth mismatch" <=> ~hs.conns[s].auth

\* A data message is accepted only in a step that finds the handshake done;
\* one that arrives earlier, or on a rejected connection, is not accepted
\* later either.
C27_AcceptedWhenDone ==
    \A s \in 1..MaxUpgrades :
        hs'.conns[s].accepted # hs.conns[s].accepted =>
            /\ hs.conns[s].state = "Done"
            /\ hs'.conns[s].accepted = Append(hs.conns[s].accepted, hs'.conns[s].arrived)

\* C27: on every new physical connection no data message is accepted or
\* delivered until the handshake (auth, sign, connectionType, ok) has
\* completed successfully; a connection rejected during the handshake never
\* delivers data and is bound to no session.
C27_NoDataBeforeHandshake ==
    /\ [](C27_DataOnlyAfterHandshake /\ C27_RejectedDeliversNothing)
    /\ [][C27_AcceptedWhenDone]_vars

\* A reconnection with an unknown token was rejected after data had arrived
\* on it, while another connection completed its handshake after a data
\* message had arrived on it and then had the next one accepted.
C27_Witness ==
    \E s, r \in 1..MaxUpgrades :
        /\ hs.conns[s].state = "Rejected"
        /\ hs.conns[s].reason = "Unknown reconnection token"
        /\ hs.conns[s].arrived > 0
        /\ hs.conns[r].state = "Done"
        /\ hs.conns[r].arrived = 2
        /\ hs.conns[r].accepted = <<2>>

(***************************************************************************)
(* Part II. One value through serialize() and deserialize()                *)
(***************************************************************************)
MaxItems == 2    \* items of an array
MaxDepth == 2    \* arrays inside arrays

\* Texts with no, one-byte and two-byte characters; buffers with no byte and
\* with bytes that look like tags and lengths; objects with no, one and two
\* members; integers on both sides of every length of the encoding.
Texts == { << >>, <<97>>, <<97, 233>>, <<1024, 34>> }
Blobs == { << >>, <<0>>, <<4, 255>> }
Members == { << >>, <<97, 1>>, <<97, 0, 98, 9>> }
Integers32 == { 0, 1, 127, 128, 300, 16383, 16384, 2097151, 2097152 }

Atoms ==
    {Value(DataTypeUndefined, 0, << >>, << >>)}
    \cup { Value(DataTypeString, 0, t, << >>) : t \in Texts }
    \cup { Value(type, 0, b, << >>) : type \in {DataTypeBuffer, DataTypeVSBuffer}, b \in Blobs }
    \cup { Value(DataTypeObject, 0, m, << >>) : m \in Members }
    \cup { Value(DataTypeInt, n, << >>, << >>) : n \in Integers32 }

ArraysOf(values) ==
    { Value(DataTypeArray, 0, << >>, items) :
        items \in UNION { [1..n -> values] : n \in 0..MaxItems } }

\* Arrays of atoms, and arrays that hold such arrays next to the simplest
\* atoms.
RECURSIVE ValuesOfDepth(_)
ValuesOfDepth(d) ==
    IF d = 0 THEN Atoms
    ELSE IF d = 1 THEN Atoms \cup ArraysOf(Atoms)
    ELSE ValuesOfDepth(d - 1)
         \cup ArraysOf({ v \in ValuesOfDepth(d - 1) :
                            \/ v.type \in {DataTypeUndefined, DataTypeInt} /\ v.int \in {0, 128}
                            \/ v.type = DataTypeArray /\ Len(v.items) <= 1
                                 /\ \A i \in DOMAIN v.items :
                                        v.items[i].type \in {DataTypeUndefined, DataTypeString}
                                        /\ Len(v.items[i].data) <= 1 })

Values == ValuesOfDepth(MaxDepth)

SerialInit ==
    /\ ClientIdle
    /\ proto = [side \in Sides |-> NewProtocol]
    /\ ipc = NewIpc
    /\ link = NewLink
    /\ hs = NewServer
    /\ ready = << >>
    /\ HostIdle
    /\ SessionIdle
    /\ ser \in { [NothingToSerialize EXCEPT !.phase = "value", !.x = v] : v \in Values }

SerialStep(next) ==
    /\ ser' = next
    /\ UNCHANGED <<cvars, svars, hvars, proto, ipc, link, hs, ready>>

Serialize ==
    /\ ser.phase = "value"
    /\ SerialStep([ser EXCEPT !.phase = "bytes", !.bytes = serialize(ser.x)])

Deserialize ==
    /\ ser.phase = "bytes"
    /\ LET read == deserialize(ser.bytes)
       IN  SerialStep([ser EXCEPT !.phase = "decoded", !.y = read.value, !.rest = read.rest])

SerializeAgain ==
    /\ ser.phase = "decoded"
    /\ SerialStep([ser EXCEPT !.phase = "again", !.again = serialize(ser.y)])

SerialNext == Serialize \/ Deserialize \/ SerializeAgain

SpecSerial == SerialInit /\ [][SerialNext]_vars

\* C25: decode(encode(x)) = x for every value built from absent, text, raw
\* bytes, ordered list, structured record and integer, the empty ones
\* included, with no byte left over; encode(decode(b)) = b for every b that
\* encode produced; every byte is a byte and an integer below 128, like a
\* length below 128, costs one byte.
C25_RoundTrip ==
    /\ ser.phase \in {"bytes", "decoded", "again"} =>
          /\ \A i \in DOMAIN ser.bytes : ser.bytes[i] \in 0..255
          /\ (ser.x.type = DataTypeInt /\ ser.x.int < 128) => ser.bytes = <<DataTypeInt, ser.x.int>>
          /\ (ser.x.type = DataTypeBuffer /\ ser.x.data = << >>) => ser.bytes = <<DataTypeBuffer, 0>>
    /\ ser.phase \in {"decoded", "again"} =>
          /\ ser.y = ser.x
          /\ ser.rest = << >>
    /\ ser.phase = "again" => ser.again = ser.bytes

\* An array that holds an empty array, next to a three-byte integer, has
\* made the round trip.
C25_Witness ==
    /\ ser.phase = "again"
    /\ ser.x.type = DataTypeArray
    /\ Len(ser.x.items) = 2
    /\ ser.x.items[1].type = DataTypeArray
    /\ ser.x.items[1].items = << >>
    /\ ser.x.items[2].type = DataTypeInt
    /\ ser.x.items[2].int = 128
    /\ ser.y = ser.x

(***************************************************************************)
(* Part III. Operations on sessions                                        *)
(*                                                                         *)
(* One client holds token 1 and runs a ChannelClient over its              *)
(* PersistentProtocol.  The two ends of a socket learn of its loss         *)
(* independently, and a connection attempt the client gave up on can still *)
(* reach the server.                                                       *)
(***************************************************************************)
SessionInit ==
    /\ ClientIdle
    /\ ProtocolIdle
    /\ SessionIdle

HasFreeSocket == \E s \in Sockets : conns[s].state = "free"

\* The next physical connection to be opened.
FreshSocket == CHOOSE s \in Sockets :
    /\ conns[s].state = "free"
    /\ \A r \in Sockets : conns[r].state = "free" => s <= r

Open(tok, recon) ==
    [conns EXCEPT ![FreshSocket] =
        [state |-> "handshake", token |-> tok, reconnection |-> recon, reason |-> ""]]

\* GET /?reconnectionToken=1&reconnection=false
ClientConnect ==
    /\ chan.state = "new"
    /\ HasFreeSocket
    /\ conns' = Open(1, FALSE)
    /\ chan' = [chan EXCEPT !.state = "connecting", !.socket = FreshSocket]
    /\ UNCHANGED <<cvars, pvars, net, managementConnections, allReconnectionTokens, srv>>

\* GET /?reconnectionToken=1&reconnection=true
ClientReconnect ==
    /\ chan.state = "reconnecting"
    /\ chan.socket = 0
    /\ HasFreeSocket
    /\ conns' = Open(1, TRUE)
    /\ chan' = [chan EXCEPT !.socket = FreshSocket]
    /\ UNCHANGED <<cvars, pvars, net, managementConnections, allReconnectionTokens, srv>>

\* { type: 'ok' }, written on the new socket by the handshake
OkMessage == ProtocolMessage(Control, 0, 0)

\* if (isReconnection) { if (!this._managementConnections[reconnectionToken]) ... reject(...)
ServerRejectReconnection(s) ==
    LET t == conns[s].token IN
    /\ conns[s].state = "handshake"
    /\ conns[s].reconnection
    /\ ~managementConnections[t].present
    /\ conns' = [conns EXCEPT ![s] = Ended(@, "rejected",
                                                unknownTokenReason(t, allReconnectionTokens))]
    /\ UNCHANGED <<cvars, pvars, net, managementConnections, allReconnectionTokens, chan, srv>>

\* ... protocol.sendControl(ok); this._managementConnections[token].acceptReconnection(socket) }
ServerAcceptReconnection(s) ==
    LET t == conns[s].token
        p == managementConnections[t].protocol
        q == endAcceptReconnection(beginAcceptReconnection(p, s))
        cs == acceptedConnections(conns, s, p, q)
    IN
    /\ conns[s].state = "handshake"
    /\ conns[s].reconnection
    /\ managementConnections[t].present
    /\ conns' = cs
    /\ managementConnections' =
          [managementConnections EXCEPT ![t] =
              [Ran(@, q) EXCEPT !.graceLeft = 0, !.shortened = FALSE]]
    /\ net' = ToClient([c \in Sockets |->
                           IF cs[c].state = "superseded" THEN [net[c] EXCEPT !.toS = << >>]
                           ELSE net[c]],
                       cs, q.socket, <<OkMessage>> \o q.out)
    /\ UNCHANGED <<cvars, pvars, allReconnectionTokens, chan, srv>>

\* A first connection: a new session is created under its token, and the
\* sessions that are disconnected have their grace shortened.
ServerAcceptNew(s) ==
    LET t == conns[s].token IN
    /\ conns[s].state = "handshake"
    /\ ~conns[s].reconnection
    /\ ~managementConnections[t].present
    /\ conns' = [conns EXCEPT ![s].state = "open"]
    /\ allReconnectionTokens' = allReconnectionTokens \cup {t}
    /\ managementConnections' =
          [u \in Tokens |->
              IF u = t THEN ManagementConnection(s)
              ELSE shortenReconnectionGraceTimeIfNecessary(
                       managementConnections[u], Disconnected(u))]
    /\ net' = ToClient(net, conns', s, <<OkMessage>>)
    /\ UNCHANGED <<cvars, pvars, chan, srv>>

\* The client reads { type: 'ok' } on the socket it opened: a first
\* connection starts its protocol there, a reconnection moves the protocol it
\* kept onto the socket and replays.
ClientHandshakeOk ==
    LET s == chan.socket
        q == IF chan.state = "connecting"
             THEN [NewProtocol EXCEPT !.socket = s]
             ELSE endAcceptReconnection(beginAcceptReconnection(chan.protocol, s))
    IN
    /\ chan.state \in {"connecting", "reconnecting"}
    /\ s # 0
    /\ net[s].toC # << >>
    /\ Head(net[s].toC).type = Control
    /\ chan' = [chan EXCEPT !.state = "connected", !.protocol = AtRest(q)]
    /\ net' = ToServer([net EXCEPT ![s].toC = Tail(@)], conns, s, q.out)
    /\ UNCHANGED <<cvars, pvars, conns, managementConnections, allReconnectionTokens, srv>>

\* The client's reconnection was refused: the session is gone for good.
ClientRejected ==
    /\ chan.state = "reconnecting"
    /\ chan.socket # 0
    /\ conns[chan.socket].state = "rejected"
    /\ chan' = onPermanentFailure(chan)
    /\ UNCHANGED <<cvars, pvars, conns, net, managementConnections, allReconnectionTokens, srv>>

\* The client's socket closes or times out.
ClientSocketClose ==
    /\ chan.state \in {"connected", "reconnecting"}
    /\ chan.socket # 0
    /\ chan' = onSocketClose(chan)
    /\ net' = [net EXCEPT ![chan.socket].toC = << >>]
    /\ UNCHANGED <<cvars, pvars, conns, managementConnections, allReconnectionTokens, srv>>

\* call(method, args) / listen(event, args): const id = this.lastRequestId++;
\* this.sendRequest([type, id, ...]).  On a session that has failed the
\* request is refused at once.
ChannelRequest(type) ==
    LET id == chan.lastRequestId
        q == send(chan.protocol)
        request == [type |-> type, acrossDrop |-> FALSE,
                    state |-> IF type = "call" THEN "pending" ELSE "listening"]
    IN
    /\ chan.state \in {"connected", "reconnecting", "failed"}
    /\ chan.lastRequestId < MaxRequests
    /\ IF chan.state = "failed"
       THEN /\ chan' = [chan EXCEPT
                          !.lastRequestId = id + 1,
                          !.requests = Append(@, [request EXCEPT !.state = "disconnected"])]
            /\ net' = net
       ELSE /\ chan' = [chan EXCEPT
                          !.lastRequestId = id + 1,
                          !.requests = Append(@, request),
                          !.payload = Append(@, id),
                          !.protocol = AtRest(q)]
            /\ net' = IF chan.state = "connected"
                      THEN ToServer(net, conns, chan.socket, q.out)
                      ELSE net
    /\ UNCHANGED <<cvars, pvars, conns, managementConnections, allReconnectionTokens, srv>>

\* The client's protocol reads an envelope; a data message is a response and
\* settles the call with its id.
ClientReceive ==
    LET s == chan.socket
        msg == Head(net[s].toC)
        q == receiveMessage(chan.protocol, msg)
        id == srv.payload[msg.id]
    IN
    /\ chan.state = "connected"
    /\ net[s].toC # << >>
    /\ chan' = [chan EXCEPT
                  !.protocol = AtRest(q),
                  !.requests = IF q.incomingMsgId > chan.protocol.incomingMsgId
                                  /\ @[id + 1].state = "pending"
                               THEN [@ EXCEPT ![id + 1].state = "resolved"]
                               ELSE @]
    /\ net' = ToServer([net EXCEPT ![s].toC = Tail(@)], conns, s, q.out)
    /\ UNCHANGED <<cvars, pvars, conns, managementConnections, allReconnectionTokens, srv>>

\* The protocol of session 1 reads an envelope from its socket; a data
\* message is a request and is handed to the ChannelServer.
ServerReceive ==
    LET p == managementConnections[1].protocol
        s == p.socket
        msg == Head(net[s].toS)
        q == receiveMessage(p, msg)
        id == chan.payload[msg.id]
        isNew == q.incomingMsgId > p.incomingMsgId
    IN
    /\ managementConnections[1].present
    /\ IsOpen(conns, s)
    /\ net[s].toS # << >>
    /\ managementConnections' = [managementConnections EXCEPT ![1] = Ran(@, q)]
    /\ srv' = IF isNew
              THEN [srv EXCEPT
                      !.received = Append(@, id),
                      !.receivedOn = Append(@, s),
                      !.listeners = IF chan.requests[id + 1].type = "listen"
                                    THEN @ \cup {id} ELSE @]
              ELSE srv
    /\ net' = ToClient([net EXCEPT ![s].toS = Tail(@)], conns, s, q.out)
    /\ UNCHANGED <<cvars, pvars, conns, allReconnectionTokens, chan>>

\* Calls handed to the ChannelServer and not answered yet.
Unanswered ==
    { srv.received[i] : i \in 1..Len(srv.received) } \ (srv.responded \cup srv.listeners)

\* promise.then(data => this.sendResponse({ type: PromiseSuccess, id, data }))
ServerSendResponse ==
    LET q == send(managementConnections[1].protocol) IN
    /\ managementConnections[1].present
    /\ \E id \in Unanswered :
          srv' = [srv EXCEPT !.responded = @ \cup {id}, !.payload = Append(@, id),
                             !.respondedOn = Append(@, q.socket)]
    /\ managementConnections' = [managementConnections EXCEPT ![1] = Ran(@, q)]
    /\ net' = ToClient(net, conns, q.socket, q.out)
    /\ UNCHANGED <<cvars, pvars, conns, allReconnectionTokens, chan>>

\* The server sees one of its accepted sockets close: the session on it, if
\* any, starts its grace period.
ServerSocketClose(s) ==
    /\ conns[s].state = "open"
    /\ conns' = [conns EXCEPT ![s] = Ended(@, "closed", "")]
    /\ net' = [net EXCEPT ![s].toS = << >>]
    /\ managementConnections' =
          [t \in Tokens |->
              IF managementConnections[t].present
                 /\ managementConnections[t].protocol.socket = s
              THEN [managementConnections[t] EXCEPT !.graceLeft = GraceTicks]
              ELSE managementConnections[t]]
    /\ UNCHANGED <<cvars, pvars, allReconnectionTokens, chan, srv>>

\* Time passes for a disconnected session whose timer is not due yet.
GraceTick(t) ==
    /\ Disconnected(t)
    /\ managementConnections[t].graceLeft > 0
    /\ ~timerFires(managementConnections[t])
    /\ managementConnections' = [managementConnections EXCEPT ![t].graceLeft = @ - 1]
    /\ UNCHANGED <<cvars, pvars, conns, net, allReconnectionTokens, chan, srv>>

\* The grace period timer fires: the session is purged, and with it the
\* subscriptions and unanswered calls it held on the server.
GraceExpired(t) ==
    /\ Disconnected(t)
    /\ timerFires(managementConnections[t])
    /\ managementConnections' = [managementConnections EXCEPT ![t] = NoSession]
    /\ srv' = IF t = 1
              THEN [srv EXCEPT !.listeners = {},
                               !.responded = { srv.received[i] : i \in 1..Len(srv.received) }]
              ELSE srv
    /\ UNCHANGED <<cvars, pvars, conns, net, allReconnectionTokens, chan>>

SessionNext ==
    \/ ClientConnect
    \/ ClientReconnect
    \/ \E s \in Sockets : ServerRejectReconnection(s)
    \/ \E s \in Sockets : ServerAcceptReconnection(s)
    \/ \E s \in Sockets : ServerAcceptNew(s)
    \/ ClientHandshakeOk
    \/ ClientRejected
    \/ ClientSocketClose
    \/ \E type \in {"call", "listen"} : ChannelRequest(type)
    \/ ClientReceive
    \/ ServerReceive
    \/ ServerSendResponse
    \/ \E s \in Sockets : ServerSocketClose(s)
    \/ \E t \in Tokens : GraceTick(t)
    \/ \E t \in Tokens : GraceExpired(t)

SpecSession == SessionInit /\ [][SessionNext]_vars

(***************************************************************************)
(* Part III. The token-to-session map under any clients                    *)
(*                                                                         *)
(* Clients are the environment: anyone opens a connection with any token,  *)
(* as a first connection or as a reconnection.  Tokens are drawn fresh by  *)
(* the client that starts a session, so a token is presented by one first  *)
(* connection at most.                                                     *)
(***************************************************************************)

\* No session was issued under the token and no first connection presents it.
FreshToken(t) ==
    /\ t \notin allReconnectionTokens
    /\ \A s \in Sockets : ~(conns[s].state = "handshake" /\ conns[s].token = t
                              /\ ~conns[s].reconnection)

\* GET /?reconnectionToken=t&reconnection=recon from some client
PeerOpen(t, recon) ==
    /\ HasFreeSocket
    /\ ~recon => FreshToken(t)
    /\ conns' = Open(t, recon)
    /\ UNCHANGED <<cvars, pvars, net, managementConnections, allReconnectionTokens, chan, srv>>

TokensNext ==
    \/ \E t \in Tokens, recon \in BOOLEAN : PeerOpen(t, recon)
    \/ \E s \in Sockets : ServerRejectReconnection(s)
    \/ \E s \in Sockets : ServerAcceptReconnection(s)
    \/ \E s \in Sockets : ServerAcceptNew(s)
    \/ \E s \in Sockets : ServerSocketClose(s)
    \/ \E t \in Tokens : GraceTick(t)
    \/ \E t \in Tokens : GraceExpired(t)

SpecTokens == SessionInit /\ [][TokensNext]_vars

(***************************************************************************)
(* Part III. Properties of sessions                                        *)
(***************************************************************************)
\* The accepted, still open connections that presented token t.
Attached(t) == { s \in Sockets : conns[s].state = "open" /\ conns[s].token = t }

Outstanding(requests) ==
    { i \in 1..Len(requests) : requests[i].state \in {"pending", "listening"} }

\* C7: at most one physical connection is bound to a session, and it is the
\* one the session's protocol is on; when a connection presenting the token
\* is accepted, every connection bound before it is closed in the same step,
\* also when two such connections were waiting at once; and the session's
\* protocol is never on a superseded connection and no envelope is put on
\* one.
C7_AtMostOneBound ==
    \A t \in Tokens :
        /\ Cardinality(Attached(t)) <= 1
        /\ \A s \in Attached(t) :
              /\ managementConnections[t].present
              /\ managementConnections[t].protocol.socket = s
        /\ managementConnections[t].present =>
              \A s \in Sockets :
                 conns[s].state = "superseded" =>
                    managementConnections[t].protocol.socket # s

C7_OldClosedOnHandoff ==
    \A s \in Sockets :
        /\ (conns[s].state = "handshake" /\ conns'[s].state = "open") =>
              \A r \in Sockets \ {s} :
                 conns[r].token = conns[s].token => conns'[r].state # "open"
        /\ conns'[s].state = "superseded" => Len(net'[s].toC) <= Len(net[s].toC)

C7_OneConnectionPerSession == []C7_AtMostOneBound /\ [][C7_OldClosedOnHandoff]_vars

\* Two reconnections were waiting at once and were accepted newest first:
\* socket 3 superseded socket 1, then socket 2 superseded socket 3.
C7_Witness ==
    /\ conns[1].state = "superseded"
    /\ conns[3].state = "superseded"
    /\ conns[2].state = "open"
    /\ managementConnections[1].protocol.socket = 2

\* C9: losing the physical connection fails no call: while the client is
\* connected or reconnecting none of its requests has been rejected as
\* disconnected, and an outstanding request is rejected only in the step in
\* which the client learns that the session is gone, which happens only after
\* the server purged the session at the end of its grace.
C9_NoneFailedInGrace ==
    chan.state \in {"connected", "reconnecting"} =>
        \A i \in 1..Len(chan.requests) : chan.requests[i].state # "disconnected"

C9_FailedOnlyAtExpiry ==
    \A i \in Outstanding(chan.requests) :
        chan'.requests[i].state # chan.requests[i].state =>
            \/ /\ chan'.requests[i].state = "resolved"
               /\ chan.state = "connected"
            \/ /\ chan'.requests[i].state = "disconnected"
               /\ chan'.state = "failed"
               /\ ~managementConnections[1].present

C10_NothingOutlivesSession ==
    /\ chan.state = "failed" => Outstanding(chan.requests) = {}
    /\ (1 \in allReconnectionTokens /\ ~managementConnections[1].present) =>
          /\ srv.listeners = {}
          /\ Unanswered = {}

C10_AllRejectedAtFailure ==
    (chan.state # "failed" /\ chan'.state = "failed") =>
        /\ ~managementConnections[1].present
        /\ \A i \in Outstanding(chan.requests) : chan'.requests[i].state = "disconnected"
        /\ \A i \in (1..Len(chan.requests)) \ Outstanding(chan.requests) :
              chan'.requests[i] = chan.requests[i]

Session == managementConnections[1]
SessionNow == managementConnections'[1]

\* No request is handed to the ChannelServer twice and no call is answered
\* twice, whatever was replayed.
C24_ExecutedOnce ==
    /\ \A i, j \in DOMAIN srv.received : i # j => srv.received[i] # srv.received[j]
    /\ \A m, n \in DOMAIN srv.payload : m # n => srv.payload[m] # srv.payload[n]

\* A response the client has not acknowledged is in the session's queue.
C24_QueuedUntilAcked ==
    Session.present =>
        \A m \in DOMAIN srv.payload :
            m > Session.protocol.outgoingAckId =>
                \E i \in DOMAIN Session.protocol.outgoingUnackMsg :
                    Session.protocol.outgoingUnackMsg[i].id = m

\* The step that sends a response appends it to the session's queue and
\* writes it to the socket the session is on now, if the client can be
\* reached there, and to no other socket.
C24_WrittenWhereBound ==
    (Len(srv'.payload) = Len(srv.payload) + 1) =>
        LET p == Session.protocol
            m == ProtocolMessage(Regular, p.outgoingMsgId + 1, p.incomingAckId)
        IN  /\ SessionNow.protocol.outgoingUnackMsg = Append(p.outgoingUnackMsg, m)
            /\ \A s \in Sockets :
                  net'[s].toC = IF s = p.socket /\ IsOpen(conns, s) /\ chan.socket = s
                                THEN Append(net[s].toC, m)
                                ELSE net[s].toC

\* The step that accepts a reconnection writes the whole queue to the new
\* socket, after the ok and the ack, in order.
C24_RetransmittedOnAccept ==
    \A s \in Sockets :
        (/\ conns[s].state = "handshake" /\ conns[s].reconnection /\ conns[s].token = 1
         /\ conns'[s].state = "open"
         /\ chan.socket = s) =>
            LET q == Session.protocol.outgoingUnackMsg
                p == Session.protocol
            IN  net'[s].toC =
                    net[s].toC \o <<OkMessage, ProtocolMessage(Ack, 0, p.incomingAckId)>> \o q

\* C24: when the session is taken over by a reconnection after a call was
\* received and before its response was sent, the response is appended to
\* the session's queue and written on the connection bound when it is sent,
\* or retransmitted when the next connection is accepted; the call is not
\* handed to the ChannelServer a second time.
C24_ResponseFollowsSession ==
    /\ [](C24_ExecutedOnce /\ C24_QueuedUntilAcked)
    /\ [][C24_WrittenWhereBound /\ C24_RetransmittedOnAccept]_vars

\* The call was received on socket 1, socket 1 was superseded by socket 2,
\* the response was sent on socket 2 and resolved the call, which ran once.
C24_Witness ==
    /\ srv.received = <<0>>
    /\ srv.receivedOn = <<1>>
    /\ srv.respondedOn = <<2>>
    /\ conns[1].state = "superseded"
    /\ conns[2].state = "open"
    /\ chan.socket = 2
    /\ chan.requests[1].type = "call"
    /\ chan.requests[1].state = "resolved"

(***************************************************************************)
(* Part III. Properties of the token-to-session map                        *)
(***************************************************************************)
\* The handshakes the server settles in this step.
SettledNow == { s \in Sockets : conns[s].state = "handshake" /\ conns'[s].state # "handshake" }

\* A reconnection attempt in handshake whose token has no live session.
Orphan(s) ==
    /\ conns[s].state = "handshake"
    /\ conns[s].reconnection
    /\ ~managementConnections[conns[s].token].present

\* The server settles an orphan attempt only by rejecting it, as never seen
\* when the token was never issued and as seen before when it was; the step
\* creates no session and issues no token.
C18_OrphanRejected ==
    \A s \in SettledNow :
        Orphan(s) =>
            /\ conns'[s].state = "rejected"
            /\ conns'[s].reason =
                  (IF conns[s].token \in allReconnectionTokens THEN "seen before" ELSE "never seen")
            /\ managementConnections' = managementConnections
            /\ allReconnectionTokens' = allReconnectionTokens

\* No session is ever bound to a connection that was rejected.
C18_RejectedBindsNothing ==
    \A s \in Sockets, t \in Tokens :
        (conns[s].state = "rejected" /\ managementConnections[t].present) =>
            managementConnections[t].protocol.socket # s

\* C18: a reconnection attempt whose token has no live session is rejected,
\* with a reason that tells a token never issued from one issued before and
\* expired since; the rejected attempt binds no connection and creates no
\* session.
C18_UnknownTokenRejected == []C18_RejectedBindsNothing /\ [][C18_OrphanRejected]_vars

\* Both rejections have happened: one attempt with a token nobody was
\* issued, one with the token of a session that has expired.
C18_Witness ==
    \E a, b \in Sockets :
        /\ conns[a].state = "rejected" /\ conns[a].reason = "never seen"
        /\ conns[b].state = "rejected" /\ conns[b].reason = "seen before"
        /\ conns[b].token \in allReconnectionTokens
        /\ ~managementConnections[conns[b].token].present

\* A disconnected session has a running timer with grace left on it; a
\* session with a bound connection has none.
C19_TimerRuns ==
    \A t \in Tokens :
        managementConnections[t].present =>
            IF Disconnected(t)
            THEN managementConnections[t].graceLeft \in 1..GraceTicks
            ELSE managementConnections[t].graceLeft = 0

\* A reconnection for a session that is still held is settled only by
\* binding the new connection to it; one for a session that was purged only
\* by rejecting it as seen before.
C19_SettledByGrace ==
    \A s \in SettledNow :
        LET t == conns[s].token IN
        conns[s].reconnection =>
            /\ managementConnections[t].present =>
                  /\ conns'[s].state = "open"
                  /\ managementConnections'[t].present
                  /\ managementConnections'[t].protocol.socket = s
            /\ (~managementConnections[t].present /\ t \in allReconnectionTokens) =>
                  /\ conns'[s].state = "rejected"
                  /\ conns'[s].reason = "seen before"

\* A session is purged only by the tick that uses up its grace, its grace
\* never grows while it stays disconnected, and a purged session stays purged.
C19_PurgedAtGraceEnd ==
    \A t \in Tokens :
        /\ (managementConnections[t].present /\ ~managementConnections'[t].present) =>
              /\ Disconnected(t)
              /\ managementConnections[t].graceLeft = 1
        /\ (Disconnected(t) /\ managementConnections'[t].present
               /\ managementConnections'[t].graceLeft # 0) =>
              managementConnections'[t].graceLeft <= managementConnections[t].graceLeft
        /\ (t \in allReconnectionTokens /\ ~managementConnections[t].present) =>
              ~managementConnections'[t].present

AttachedNow ==
    { t \in Tokens : ~managementConnections[t].present /\ managementConnections'[t].present }

ShorterOf(a, b) == IF a < b THEN a ELSE b

\* C20: when a new, unrelated session attaches, every session without a
\* bound connection is left with at most the short window of grace, a grace
\* already below the short window stays as it is, and sessions with a bound
\* connection are not touched; nothing else marks a session as shortened.
C20_GraceShortened ==
    [][ /\ \A u \in Tokens \ AttachedNow :
              (AttachedNow # {} /\ managementConnections[u].present) =>
                  IF Disconnected(u)
                  THEN /\ managementConnections'[u].present
                       /\ managementConnections'[u].graceLeft =
                             ShorterOf(managementConnections[u].graceLeft, ShortGraceTicks)
                       /\ managementConnections'[u].protocol = managementConnections[u].protocol
                  ELSE managementConnections'[u] = managementConnections[u]
        /\ \A u \in Tokens :
              (managementConnections'[u].shortened /\ ~managementConnections[u].shortened) =>
                  AttachedNow # {} ]_vars

\* Session 1 lost its connection with the whole grace ahead, session 2
\* attached, and session 1 is left with the short window.
C20_Witness ==
    /\ managementConnections[1].present
    /\ Disconnected(1)
    /\ managementConnections[1].shortened
    /\ managementConnections[1].graceLeft = ShortGraceTicks
    /\ managementConnections[2].present
    /\ ~Disconnected(2)

(***************************************************************************)
(* Part IV. UplinkPtyService over the UplinkPtyClient instances it makes   *)
(***************************************************************************)

MaxClients == 3

MaxHostCalls == 4

TerminalIds == 1..2

ServiceIds == 1..2

\* new UplinkPtyClient(path) and the start of connect(): the socket exists
\* and is being established, the service has registered no listener yet.
NewPtyClient ==
    [ sock |-> "connecting", socket |-> "set", promise |-> "pending", listening |-> FALSE ]

\* One c on the service: the operation, the service's id of the terminal,
\* the server's terminal_id, the client it waits for or was sent on.
Call(op, id, terminalId) ==
    [ op |-> op, id |-> id, terminalId |-> terminalId, on |-> 0, answered |-> FALSE ]

\* The c returns (or throws) to its caller.
settle(s, c, result) ==
    [s EXCEPT !.returned = Append(@, [op |-> c.op, id |-> c.id, result |-> result])]

\* The client, or the attempt, whose promise _getClient hands to its caller.
Awaited(s) ==
    IF s.client # 0 THEN s.client
    ELSE IF s.clientPromise # 0 THEN s.clientPromise
    ELSE Len(s.clients) + 1

\* _getClient up to its first await: an existing client or attempt is
\* reused, otherwise a new client is made and its connect() started.
_getClient(s) ==
    IF s.client # 0 \/ s.clientPromise # 0
    THEN s
    ELSE [s EXCEPT !.clients = Append(@, NewPtyClient),
                   !.clientPromise = Len(s.clients) + 1]

\* UplinkPtyClient.request on client k: send() throws when this.socket is
\* null, otherwise the frame is written to the socket.
request(s, k, c) ==
    IF s.clients[k].socket = "null"
    THEN settle(s, c, "Not connected")
    ELSE [s EXCEPT !.requests = Append(@, [c EXCEPT !.on = k])]

\* What a c does once `await this._getClient()` gave it client k.
resume(s, c, k) ==
    CASE c.op = "createProcess" ->
            request([s EXCEPT !.nextId = @ + 1], k, [c EXCEPT !.id = s.nextId])
      [] c.op = "restartPtyHost" -> settle(s, c, "restarted")
      [] OTHER -> request(s, k, c)

RECURSIVE resumeAll(_, _, _)
resumeAll(s, cs, k) ==
    IF cs = << >> THEN s
    ELSE resumeAll(resume(s, Head(cs), k), Tail(cs), k)

\* `await this._getClient()`: the c goes on at once on a resolved
\* promise, fails on a rejected one and is suspended on a pending one.
awaitClient(s, c) ==
    LET k == Awaited(s)
        s1 == [_getClient(s) EXCEPT !.calls = @ + 1]
    IN  CASE s1.clients[k].promise = "resolved" -> resume(s1, c, k)
          [] s1.clients[k].promise = "rejected" -> settle(s1, c, "connect failed")
          [] OTHER -> [s1 EXCEPT !.waiting = Append(@, [c EXCEPT !.on = k])]

\* this._terminals.get(id)
HasEntry(s, id) == \E i \in DOMAIN s.terminals : s.terminals[i].id = id

EntryOf(s, id) == s.terminals[CHOOSE i \in DOMAIN s.terminals : s.terminals[i].id = id]

\* this._terminals.delete(id)
deleteEntry(s, id) ==
    [s EXCEPT !.terminals = SelectSeq(@, LAMBDA e : e.id # id)]

\* _findByTerminalId: the first entry, in insertion order, with that
\* terminal_id; 0 when there is none.
_findByTerminalId(s, terminalId) ==
    LET found == { i \in DOMAIN s.terminals : s.terminals[i].terminalId = terminalId }
    IN  IF found = {} THEN 0
        ELSE s.terminals[CHOOSE i \in found : \A j \in found : i <= j].id

createProcess(s) == awaitClient(s, Call("createProcess", 0, 0))

\* input, resize and shutdown return at once without an entry.
onEntry(s, op, id) ==
    IF ~HasEntry(s, id)
    THEN settle([s EXCEPT !.calls = @ + 1], Call(op, id, 0), "no entry")
    ELSE awaitClient(s, Call(op, id, EntryOf(s, id).terminalId))

input(s, id) == onEntry(s, "input", id)

resize(s, id) == onEntry(s, "resize", id)

shutdown(s, id) == onEntry(s, "shutdown", id)

\* start: 'Terminal not found' without an entry, onProcessReady otherwise.
start(s, id) ==
    settle([s EXCEPT !.calls = @ + 1], Call("start", id, 0),
           IF HasEntry(s, id) THEN "ready" ELSE "Terminal not found")

\* UplinkPtyClient.close(): this.socket?.destroy(); this.socket = null.
closeClient(s, k) ==
    [s EXCEPT !.clients[k].sock = IF @ \in {"connecting", "open"} THEN "destroyed" ELSE @,
              !.clients[k].socket = "null"]

restartPtyHost(s) ==
    LET closed == IF s.client # 0 THEN closeClient(s, s.client) ELSE s
    IN  awaitClient([closed EXCEPT !.client = 0, !.clientPromise = 0],
                    Call("restartPtyHost", 0, 0))

\* connect() resolved: the rest of the attempt registers the listeners and
\* stores the client, then the cs suspended on the attempt go on.
onConnected(s, k) ==
    LET s1 == [s EXCEPT !.clients[k].sock = "open",
                        !.clients[k].promise = "resolved",
                        !.clients[k].listening = TRUE,
                        !.client = k,
                        !.waiting = SelectSeq(@, LAMBDA w : w.on # k)]
    IN  resumeAll(s1, SelectSeq(s.waiting, LAMBDA w : w.on = k), k)

RECURSIVE settleAll(_, _, _)
settleAll(s, cs, result) ==
    IF cs = << >> THEN s
    ELSE settleAll(settle(s, Head(cs), result), Tail(cs), result)

\* connect() rejected: the attempt's promise is rejected with it; nothing of
\* the service is changed.
onConnectFailed(s, k) ==
    LET s1 == [s EXCEPT !.clients[k].sock = "failed",
                        !.clients[k].promise = "rejected",
                        !.waiting = SelectSeq(@, LAMBDA w : w.on # k)]
    IN  settleAll(s1, SelectSeq(s.waiting, LAMBDA w : w.on = k), "connect failed")

\* The 'close' listener of client k.
onClose(s, k) ==
    LET s1 == [s EXCEPT !.clients[k].sock = "closed"]
    IN  IF s.clients[k].listening
        THEN [s1 EXCEPT !.client = 0, !.clientPromise = 0]
        ELSE s1

\* The 'exit' listener, firing onProcessExit and keeping the entry (mutant).
onExitKeepingEntry(s, terminalId) ==
    LET id == _findByTerminalId(s, terminalId)
    IN  IF id = 0 THEN s ELSE [s EXCEPT !.exits = Append(@, id)]

\* The 'exit' listener.
onExit(s, terminalId) ==
    LET id == _findByTerminalId(s, terminalId)
    IN  IF id = 0 THEN s
        ELSE deleteEntry([s EXCEPT !.exits = Append(@, id)], id)

\* The response to request i arrived: the c goes on after its
\* `await client.create/input/resize/kill`.
afterRequest(s, i, terminalId) ==
    LET r == s.requests[i]
        s1 == [s EXCEPT !.requests[i].answered = TRUE,
                        !.requests[i].terminalId = IF r.op = "createProcess" THEN terminalId ELSE @]
    IN  CASE r.op = "createProcess" ->
                settle([s1 EXCEPT !.terminals =
                            Append(@, [id |-> r.id, terminalId |-> terminalId, on |-> r.on])],
                       r, "created")
          [] r.op = "shutdown" -> settle(deleteEntry(s1, r.id), r, "done")
          [] OTHER -> settle(s1, r, "done")

(***************************************************************************)
(* Part IV. UplinkPtyService: cs, sockets and the PTY server            *)
(***************************************************************************)

HostInit ==
    /\ ClientIdle
    /\ ProtocolIdle
    /\ SessionIdle

ServiceStep(s) ==
    /\ service' = s
    /\ UNCHANGED <<cvars, svars, wvars, shared, provider, watcher, boot>>

\* A c may be made while the bound on cs and on clients allows it.
MayCall == service.calls < MaxHostCalls /\ Awaited(service) <= MaxClients

CallCreateProcess == MayCall /\ ServiceStep(createProcess(service))

CallInput(id) == MayCall /\ ServiceStep(input(service, id))

CallResize(id) == MayCall /\ ServiceStep(resize(service, id))

CallShutdown(id) == MayCall /\ ServiceStep(shutdown(service, id))

CallStart(id) == MayCall /\ ServiceStep(start(service, id))

CallRestartPtyHost ==
    /\ service.calls < MaxHostCalls
    /\ Len(service.clients) < MaxClients
    /\ ServiceStep(restartPtyHost(service))

PtyConnected(k) ==
    /\ service.clients[k].sock = "connecting"
    /\ ServiceStep(onConnected(service, k))

PtyConnectFailed(k) ==
    /\ service.clients[k].sock = "connecting"
    /\ ServiceStep(onConnectFailed(service, k))

\* The socket of client k closed: the peer closed it, or destroy() did.
PtyClosed(k) ==
    /\ service.clients[k].sock \in {"open", "destroyed"}
    /\ ServiceStep(onClose(service, k))

\* The terminal_ids the server gave out on connection k.
CreatedOn(s, k) ==
    { s.requests[i].terminalId :
        i \in { j \in DOMAIN s.requests :
                  /\ s.requests[j].on = k
                  /\ s.requests[j].op = "createProcess"
                  /\ s.requests[j].answered } }

\* The server answers a request; a create gets a terminal_id that is new
\* on that connection.
PtyResponse(i) ==
    /\ ~service.requests[i].answered
    /\ service.clients[service.requests[i].on].sock = "open"
    /\ IF service.requests[i].op = "createProcess"
       THEN \E t \in TerminalIds \ CreatedOn(service, service.requests[i].on) :
                ServiceStep(afterRequest(service, i, t))
       ELSE ServiceStep(afterRequest(service, i, 0))

\* A terminal the server created on connection k exits (once).
PtyExit(k, t) ==
    /\ service.clients[k].sock = "open"
    /\ t \in CreatedOn(service, k)
    /\ <<k, t>> \notin service.srvExited
    /\ ServiceStep([onExit(service, t) EXCEPT !.srvExited = @ \cup {<<k, t>>}])

ServiceNext ==
    \/ CallCreateProcess
    \/ \E id \in ServiceIds : CallInput(id)
    \/ \E id \in ServiceIds : CallResize(id)
    \/ \E id \in ServiceIds : CallShutdown(id)
    \/ \E id \in ServiceIds : CallStart(id)
    \/ CallRestartPtyHost
    \/ \E k \in DOMAIN service.clients : PtyConnected(k)
    \/ \E k \in DOMAIN service.clients : PtyConnectFailed(k)
    \/ \E k \in DOMAIN service.clients : PtyClosed(k)
    \/ \E i \in DOMAIN service.requests : PtyResponse(i)
    \/ \E k \in DOMAIN service.clients, t \in TerminalIds : PtyExit(k, t)

SpecService == HostInit /\ [][ServiceNext]_vars

(***************************************************************************)
(* Part IV. Properties of UplinkPtyService                                 *)
(***************************************************************************)

\* The clients whose connection is open or being established.
Connections(s) ==
    { k \in DOMAIN s.clients : s.clients[k].sock \in {"connecting", "open"} }

\* C31: whatever calls and socket events interleave, the service has at
\* most one connection to the PTY server open or being established, and the
\* close event of a client never clears the reference to another client or
\* to another client's connection attempt.
C31_SingleConnection ==
    [][ /\ Cardinality(Connections(service')) <= 1
        /\ \A k \in DOMAIN service.clients :
              (service.clients[k].sock # "closed" /\ service'.clients[k].sock = "closed") =>
                  /\ (service.client \notin {0, k}) => (service'.client = service.client)
                  /\ (service.clientPromise \notin {0, k}) =>
                        (service'.clientPromise = service.clientPromise) ]_vars

\* C32: no two entries of the terminal table hold the same server
\* terminal_id, and every entry was created on the connection the service
\* holds now: entries of a connection that closed, or that restartPtyHost
\* replaced, are gone from the table.
C32_TerminalsOfCurrentConnection ==
    /\ \A i, j \in DOMAIN service.terminals :
          (service.terminals[i].terminalId = service.terminals[j].terminalId) => (i = j)
    /\ \A i \in DOMAIN service.terminals : service.terminals[i].on = service.client

(***************************************************************************)
(* Part IV. UplinkFileSystemProvider: its connection and its watches       *)
(***************************************************************************)

MaxFsClients == 2

MaxWatches == 2

MaxDisposes == 3

MaxStats == 1

\* new UplinkFsClient(SOCKET_PATH) in doConnect, up to `await
\* client.connect()`: the listeners are registered, the socket is being
\* established.
NewFsClient == [ sock |-> "connecting", promise |-> "pending" ]

\* An operation of the provider that needs the client: what it will send,
\* the attempt it waits for, and whether its ensureConnected started it.
FsCall(op, reqId) == [ op |-> op, reqId |-> reqId, on |-> 0, starter |-> FALSE ]

\* client.watch / client.unwatch / client.stat: the request is written to
\* the socket of client k; waited tells that the operation had been
\* suspended on the connection attempt.
fsRequest(p, k, c) ==
    [p EXCEPT !.sent = Append(@, [op |-> c.op, reqId |-> c.reqId, on |-> k,
                                  waited |-> c.on # 0])]

\* The operation failed: ensureConnected threw.
fsFail(p, c) ==
    [p EXCEPT !.failed = Append(@, [op |-> c.op, reqId |-> c.reqId])]

\* What follows `await this.connecting` in ensureConnected and the
\* operation's own code after it: the call that started the attempt clears
\* this.connecting, each call goes on with this.client.
fsResume(p, c, k) ==
    fsRequest(IF c.starter THEN [p EXCEPT !.connecting = 0] ELSE p, k, c)

RECURSIVE fsResumeAll(_, _, _)
fsResumeAll(p, cs, k) ==
    IF cs = << >> THEN p
    ELSE fsResumeAll(fsResume(p, Head(cs), k), Tail(cs), k)

RECURSIVE fsFailAll(_, _)
fsFailAll(p, cs) ==
    IF cs = << >> THEN p ELSE fsFailAll(fsFail(p, Head(cs)), Tail(cs))

\* doConnect up to its await: a new client with the provider's listeners.
doConnect(p) ==
    [p EXCEPT !.clients = Append(@, NewFsClient), !.connecting = Len(p.clients) + 1]

\* ensureConnected for one operation: the client at hand is used at once;
\* an attempt in flight is awaited; otherwise doConnect starts one.
ensureConnected(p, c) ==
    IF p.client # 0 THEN fsRequest(p, p.client, c)
    ELSE IF p.connecting # 0
         THEN IF p.clients[p.connecting].promise = "rejected"
              THEN fsFail(p, c)
              ELSE [p EXCEPT !.waiting = Append(@, [c EXCEPT !.on = p.connecting])]
         ELSE [doConnect(p) EXCEPT
                  !.waiting = Append(@, [c EXCEPT !.on = Len(p.clients) + 1,
                                                  !.starter = TRUE])]

\* watch(resource, opts): the watch is entered in this.watches and its
\* request sent once the client is there; the result is the handle.
watch(p) ==
    ensureConnected([p EXCEPT !.watchCounter = @ + 1,
                              !.watches = @ \cup {p.watchCounter},
                              !.handles = Append(@, 0)],
                    FsCall("watch", p.watchCounter))

\* The disposable, sending unwatch without looking the watch up (mutant).
disposeWatchUnchecked(p, watchId) ==
    ensureConnected([p EXCEPT !.handles[watchId + 1] = @ + 1,
                              !.watches = @ \ {watchId}],
                    FsCall("unwatch", watchId))

\* The disposable watch() returned for watchId, disposed.
disposeWatch(p, watchId) ==
    LET p1 == [p EXCEPT !.handles[watchId + 1] = @ + 1]
    IN  IF watchId \in p.watches
        THEN ensureConnected([p1 EXCEPT !.watches = @ \ {watchId}],
                             FsCall("unwatch", watchId))
        ELSE p1

\* stat(resource), as far as the connection goes.
stat(p) == ensureConnected([p EXCEPT !.stats = @ + 1], FsCall("stat", 0))

\* client.connect() of attempt k resolved: doConnect stores the client and
\* the operations waiting on the attempt go on in the order they came.
fsConnected(p, k) ==
    LET p1 == [p EXCEPT !.clients[k].sock = "open",
                        !.clients[k].promise = "resolved",
                        !.client = k,
                        !.waiting = SelectSeq(@, LAMBDA w : w.on # k)]
    IN  fsResumeAll(p1, SelectSeq(p.waiting, LAMBDA w : w.on = k), k)

\* client.connect() rejected: the 'error' listener clears this.client,
\* doConnect and every ensureConnected awaiting it throw.
fsConnectFailed(p, k) ==
    LET p1 == [p EXCEPT !.clients[k].sock = "failed",
                        !.clients[k].promise = "rejected",
                        !.client = 0,
                        !.waiting = SelectSeq(@, LAMBDA w : w.on # k)]
    IN  fsFailAll(p1, SelectSeq(p.waiting, LAMBDA w : w.on = k))

\* The 'close' listener of a connected client.
fsClosed(p, k) == [p EXCEPT !.clients[k].sock = "closed", !.client = 0]

ProviderStep(p) ==
    /\ provider' = p
    /\ UNCHANGED <<cvars, svars, wvars, service, shared, watcher, boot>>

\* An operation may start an attempt while the bound on clients allows it.
MayConnect ==
    provider.client # 0 \/ provider.connecting # 0 \/ Len(provider.clients) < MaxFsClients

ProviderWatch ==
    /\ provider.watchCounter < MaxWatches
    /\ MayConnect
    /\ ProviderStep(watch(provider))

ProviderDispose(w) ==
    /\ w < provider.watchCounter
    /\ provider.handles[w + 1] < MaxDisposes - 1
    /\ MayConnect
    /\ ProviderStep(disposeWatch(provider, w))

ProviderStat ==
    /\ provider.stats < MaxStats
    /\ MayConnect
    /\ ProviderStep(stat(provider))

FsConnected(k) ==
    /\ provider.clients[k].sock = "connecting"
    /\ ProviderStep(fsConnected(provider, k))

FsConnectFailed(k) ==
    /\ provider.clients[k].sock = "connecting"
    /\ ProviderStep(fsConnectFailed(provider, k))

FsClosed(k) ==
    /\ provider.clients[k].sock = "open"
    /\ ProviderStep(fsClosed(provider, k))

ProviderNext ==
    \/ ProviderWatch
    \/ \E w \in 0..(MaxWatches - 1) : ProviderDispose(w)
    \/ ProviderStat
    \/ \E k \in DOMAIN provider.clients : FsConnected(k)
    \/ \E k \in DOMAIN provider.clients : FsConnectFailed(k)
    \/ \E k \in DOMAIN provider.clients : FsClosed(k)

SpecProvider == HostInit /\ [][ProviderNext]_vars

\* C33: a failed connection attempt is not kept: neither the service's
\* _clientPromise nor the provider's connecting ever holds an attempt whose
\* connect failed, so the operation after a failure starts a fresh attempt
\* instead of failing on the stored one.
C33_FailedAttemptNotCached ==
    /\ service.clientPromise # 0 =>
          service.clients[service.clientPromise].promise # "rejected"
    /\ provider.connecting # 0 =>
          provider.clients[provider.connecting].promise # "rejected"

(***************************************************************************)
(* Part IV. UplinkTerminalProcess instances over the shared client         *)
(***************************************************************************)

Processes == 1..MaxProcesses

\* start() of process x up to `await getSharedClient()`: getSharedClient
\* hands out the stored client or the stored attempt, or starts the one
\* attempt; with a client at hand start() goes on to create its terminal.
sharedAwaited(h) ==
    IF h.sharedClient # 0 THEN h.sharedClient
    ELSE IF h.sharedClientPromise # 0 THEN h.sharedClientPromise
    ELSE Len(h.clients) + 1

getSharedClient(h) ==
    IF h.sharedClient # 0 \/ h.sharedClientPromise # 0
    THEN h
    ELSE [h EXCEPT !.clients = Append(@, [sock |-> "connecting", promise |-> "pending"]),
                   !.sharedClientPromise = Len(h.clients) + 1]

\* start() after the await: this._client = client, the handlers are
\* registered and the create request is handed to the client.
startWith(h, x, k) ==
    [h EXCEPT !.processes[x] = [phase |-> "creating", client |-> k]]

RECURSIVE startAllWith(_, _, _)
startAllWith(h, xs, k) ==
    IF xs = << >> THEN h ELSE startAllWith(startWith(h, Head(xs), k), Tail(xs), k)

\* start() when getSharedClient threw: 'Failed to connect to uplink-pty socket'.
startFailed(h, x) == [h EXCEPT !.processes[x].phase = "failed"]

RECURSIVE startAllFailed(_, _)
startAllFailed(h, xs) ==
    IF xs = << >> THEN h ELSE startAllFailed(startFailed(h, Head(xs)), Tail(xs))

processStart(h, x) ==
    LET k == sharedAwaited(h)
        h1 == getSharedClient(h)
    IN  CASE h1.clients[k].promise = "resolved" -> startWith(h1, x, k)
          [] h1.clients[k].promise = "rejected" -> startFailed(h1, x)
          [] OTHER -> [h1 EXCEPT !.processes[x].phase = "connecting",
                                 !.waiting = Append(@, x)]

\* connect() of the shared attempt resolved: sharedClient = client.
sharedConnected(h, k) ==
    startAllWith([h EXCEPT !.clients[k].sock = "open",
                           !.clients[k].promise = "resolved",
                           !.sharedClient = k,
                           !.waiting = << >>],
                 h.waiting, k)

sharedConnectFailed(h, k) ==
    startAllFailed([h EXCEPT !.clients[k].sock = "failed",
                             !.clients[k].promise = "rejected",
                             !.waiting = << >>],
                   h.waiting)

\* The socket of the shared client closed; the module keeps no listener.
sharedClosed(h, k) == [h EXCEPT !.clients[k].sock = "closed"]

\* The CREATED response to the create of process x.
processCreated(h, x) == [h EXCEPT !.processes[x].phase = "ready"]

\* shutdown(immediate): the handlers are removed and kill is sent.
processShutdown(h, x) == [h EXCEPT !.processes[x].phase = "shut"]

SharedStep(h) ==
    /\ shared' = h
    /\ UNCHANGED <<cvars, svars, wvars, service, provider, watcher, boot>>

ProcessStart(x) ==
    /\ shared.processes[x].phase = "new"
    /\ SharedStep(processStart(shared, x))

ProcessCreated(x) ==
    /\ shared.processes[x].phase = "creating"
    /\ shared.clients[shared.processes[x].client].sock = "open"
    /\ SharedStep(processCreated(shared, x))

ProcessShutdown(x) ==
    /\ shared.processes[x].phase = "ready"
    /\ SharedStep(processShutdown(shared, x))

SharedConnected(k) ==
    /\ shared.clients[k].sock = "connecting"
    /\ SharedStep(sharedConnected(shared, k))

SharedConnectFailed(k) ==
    /\ shared.clients[k].sock = "connecting"
    /\ SharedStep(sharedConnectFailed(shared, k))

SharedClosed(k) ==
    /\ shared.clients[k].sock = "open"
    /\ SharedStep(sharedClosed(shared, k))

SharedNext ==
    \/ \E x \in Processes : ProcessStart(x)
    \/ \E x \in Processes : ProcessCreated(x)
    \/ \E x \in Processes : ProcessShutdown(x)
    \/ \E k \in DOMAIN shared.clients : SharedConnected(k)
    \/ \E k \in DOMAIN shared.clients : SharedConnectFailed(k)
    \/ \E k \in DOMAIN shared.clients : SharedClosed(k)

SpecShared == HostInit /\ [][SharedNext]_vars

\* C34: the client getSharedClient hands to a start() has an open socket:
\* after the shared client's socket closed, the next start() connects anew
\* before it creates its terminal.
C34_HandsOutOpenClient ==
    [][ \A x \in Processes :
           (shared.processes[x].client = 0 /\ shared'.processes[x].client # 0) =>
               shared'.clients[shared'.processes[x].client].sock = "open" ]_vars

(***************************************************************************)
(* Part I. A request on a client that is not connected                     *)
(***************************************************************************)

\* C35: a request issued while the client has no socket (before connect,
\* or after close()) is rejected with 'Not connected' and has no entry in
\* the pending map.
C35_NotConnectedLeavesNoEntry ==
    \A p \in DOMAIN promises :
        (promises[p].state = "rejected" /\ promises[p].value.val = NotConnected) =>
            promises[p].id \notin DOMAIN pending

(***************************************************************************)
(* Part IV. Terminals of UplinkPtyService that are gone                    *)
(***************************************************************************)

\* The exit event of terminal id was handled (onProcessExit fired for it),
\* or a shutdown(id) has completed.
Gone(s, id) ==
    \/ \E i \in DOMAIN s.exits : s.exits[i] = id
    \/ \E i \in DOMAIN s.returned :
          s.returned[i] = [op |-> "shutdown", id |-> id, result |-> "done"]

\* C36: once the exit event of a terminal was handled or its shutdown has
\* completed, its id is not in the terminal table, onProcessExit has fired
\* at most once for it, a later input, resize or shutdown for the id hands
\* no request to a client and starts no connection, and a later start
\* returns 'Terminal not found'.
C36_GoneStaysGone ==
    [][ \A id \in 1..MaxHostCalls :
          /\ Gone(service', id) => ~HasEntry(service', id)
          /\ Cardinality({ i \in DOMAIN service'.exits : service'.exits[i] = id }) <= 1
          /\ (Gone(service, id) /\ (CallInput(id) \/ CallResize(id) \/ CallShutdown(id))) =>
                /\ service'.requests = service.requests
                /\ service'.waiting = service.waiting
                /\ service'.clients = service.clients
          /\ (Gone(service, id) /\ CallStart(id)) =>
                service'.returned =
                    Append(service.returned,
                           [op |-> "start", id |-> id, result |-> "Terminal not found"]) ]_vars

\* Terminal 1 exited; an input and a start on it came afterwards.
C36_Witness ==
    /\ service.exits = <<1>>
    /\ \E i, j \in DOMAIN service.returned :
          /\ i < j
          /\ service.returned[i] = [op |-> "input", id |-> 1, result |-> "no entry"]
          /\ service.returned[j] = [op |-> "start", id |-> 1, result |-> "Terminal not found"]
    /\ Len(service.requests) = 1

(***************************************************************************)
(* Part IV. Properties of the provider's watches                           *)
(***************************************************************************)

\* The positions in provider.sent of the requests op for watch w.
SentFor(op, w) ==
    { i \in DOMAIN provider.sent : provider.sent[i].op = op /\ provider.sent[i].reqId = w }

\* C37: for every watch the unwatch request is sent at most once and only
\* after the watch request of the same watch, also when the disposable is
\* disposed before the connection is there or is disposed more than once.
C37_UnwatchOnceAfterWatch ==
    \A w \in 0..(MaxWatches - 1) :
        /\ Cardinality(SentFor("unwatch", w)) <= 1
        /\ \A i \in SentFor("unwatch", w) : \E j \in SentFor("watch", w) : j < i

\* Watch 0 was disposed twice while the connection was still being
\* established; its watch and its unwatch were sent when it was there.
C37_Witness ==
    /\ provider.handles # << >>
    /\ provider.handles[1] = 2
    /\ Len(provider.sent) = 2
    /\ provider.sent[1] = [op |-> "watch", reqId |-> 0, on |-> 1, waited |-> TRUE]
    /\ provider.sent[2] = [op |-> "unwatch", reqId |-> 0, on |-> 1, waited |-> TRUE]

(***************************************************************************)
(* Part IV. UplinkSessionFileWatcher over the provider's watches           *)
(***************************************************************************)

MaxSessionWatches == 3

RequestNumbers == 1..2

\* watch(req, resource, opts): the provider's watch is started and stored
\* under req, whatever was stored there; the result is a handle for req.
sessionWatch(v, req) ==
    LET w == Len(v.providerWatches) + 1
    IN  [v EXCEPT !.providerWatches = Append(@, "watching"),
                  !.watcherRequests = [r \in (DOMAIN @) \cup {req} |->
                                          IF r = req THEN w ELSE @[r]],
                  !.handles = Append(@, [req |-> req, watch |-> w, disposed |-> FALSE])]

\* A provider watch's disposable, disposed.
disposeProviderWatch(v, w) == [v EXCEPT !.providerWatches[w] = "disposed"]

\* The handle watch() returned, disposed: the disposable stored under the
\* handle's req is disposed, if there is one, and the entry is deleted.
disposeHandle(v, h) ==
    LET req == v.handles[h].req
        v1 == [v EXCEPT !.handles[h].disposed = TRUE]
    IN  IF req \in DOMAIN v1.watcherRequests
        THEN [disposeProviderWatch(v1, v1.watcherRequests[req]) EXCEPT
                 !.watcherRequests = [r \in (DOMAIN @) \ {req} |-> @[r]]]
        ELSE v1

RECURSIVE disposeEach(_, _)
disposeEach(v, ws) ==
    IF ws = {} THEN v
    ELSE LET w == CHOOSE x \in ws : TRUE
         IN  disposeEach(disposeProviderWatch(v, w), ws \ {w})

\* dispose(): every stored disposable is disposed and the map cleared.
disposeWatcher(v) ==
    [disposeEach(v, { v.watcherRequests[r] : r \in DOMAIN v.watcherRequests }) EXCEPT
        !.watcherRequests = << >>,
        !.disposed = TRUE]

WatcherStep(v) ==
    /\ watcher' = v
    /\ UNCHANGED <<cvars, svars, wvars, service, shared, provider, boot>>

SessionWatch(req) ==
    /\ ~watcher.disposed
    /\ Len(watcher.providerWatches) < MaxSessionWatches
    /\ WatcherStep(sessionWatch(watcher, req))

HandleDispose(h) ==
    /\ ~watcher.handles[h].disposed
    /\ WatcherStep(disposeHandle(watcher, h))

WatcherDispose ==
    /\ ~watcher.disposed
    /\ WatcherStep(disposeWatcher(watcher))

WatcherNext ==
    \/ \E req \in RequestNumbers : SessionWatch(req)
    \/ \E h \in DOMAIN watcher.handles : HandleDispose(h)
    \/ WatcherDispose

SpecWatcher == HostInit /\ [][WatcherNext]_vars

\* C38: once the watcher is disposed every provider watch started through
\* its watch() is disposed, also when two watches used the same request
\* number; and a provider watch is disposed only by its own handle or by
\* the watcher's dispose(), never by the handle of another watch.
C38_WatchesDisposed ==
    \A h \in DOMAIN watcher.handles :
        LET w == watcher.handles[h].watch
        IN  /\ watcher.disposed => watcher.providerWatches[w] = "disposed"
            /\ watcher.providerWatches[w] = "disposed" =>
                  (watcher.disposed \/ watcher.handles[h].disposed)

(***************************************************************************)
(* Part IV. startUplinkPty: the child, its output and the timeout          *)
(***************************************************************************)

MaxBootEvents == 4

\* The stdout chunks of the child, as the words they hold.
Chunks == { <<"starting">>, <<"uplink-pty", "listening">>, <<"list">>, <<"ening">> }

\* msg.includes('listening')
includesListening(msg) == \E i \in DOMAIN msg : msg[i] = "listening"

\* resolve() / reject(err) of the promise's executor: the first one settles.
settlePromise(b, outcome) ==
    IF b.promise = "pending" THEN [b EXCEPT !.promise = outcome] ELSE b

happened(b, what, msg) == [b EXCEPT !.events = Append(@, [kind |-> what, msg |-> msg])]

\* startUplinkPty up to the end of the executor: a missing binary throws,
\* otherwise the child is spawned, the handlers are registered and the
\* timeout is set.
startUplinkPty(b, exists) ==
    IF ~exists
    THEN [b EXCEPT !.phase = "called", !.promise = "rejected"]
    ELSE [b EXCEPT !.phase = "called", !.promise = "pending",
                   !.uplinkPtyProcess = "spawned", !.timeoutId = "set"]

\* uplinkPtyProcess.on('error', ...)
onSpawnError(b) ==
    settlePromise([happened(b, "error", << >>) EXCEPT !.timeoutId = "null"], "rejected")

\* uplinkPtyProcess.on('exit', ...): logged only.
onChildExit(b) == happened(b, "exit", << >>)

\* stdout 'data', resolving on any chunk (mutant).
onStdoutAnyChunk(b, msg) ==
    IF b.timeoutId = "set"
    THEN settlePromise([happened(b, "stdout", msg) EXCEPT !.timeoutId = "null"], "resolved")
    ELSE happened(b, "stdout", msg)

\* uplinkPtyProcess.stdout.on('data', ...)
onStdout(b, msg) ==
    IF b.timeoutId = "set" /\ includesListening(msg)
    THEN settlePromise([happened(b, "stdout", msg) EXCEPT !.timeoutId = "null"], "resolved")
    ELSE happened(b, "stdout", msg)

\* The callback of setTimeout(..., 5000).
onTimeout(b) ==
    settlePromise([happened(b, "timeout", << >>) EXCEPT !.timeoutId = "null"], "rejected")

BootStep(b) ==
    /\ boot' = b
    /\ UNCHANGED <<cvars, svars, wvars, service, shared, provider, watcher>>

StartUplinkPty ==
    /\ boot.phase = "idle"
    /\ \E exists \in BOOLEAN : BootStep(startUplinkPty(boot, exists))

Spawned == boot.uplinkPtyProcess = "spawned"

SpawnError ==
    /\ Spawned
    /\ Len(boot.events) < MaxBootEvents
    /\ BootStep(onSpawnError(boot))

ChildExit ==
    /\ Spawned
    /\ Len(boot.events) < MaxBootEvents
    /\ \A i \in DOMAIN boot.events : boot.events[i].kind # "exit"
    /\ BootStep(onChildExit(boot))

\* The child prints; after its exit there is nothing to read.
Stdout(msg) ==
    /\ Spawned
    /\ Len(boot.events) < MaxBootEvents
    /\ \A i \in DOMAIN boot.events : boot.events[i].kind # "exit"
    /\ BootStep(onStdout(boot, msg))

\* The timer fires unless it was cleared.
Timeout ==
    /\ boot.timeoutId = "set"
    /\ BootStep(onTimeout(boot))

BootNext ==
    \/ StartUplinkPty
    \/ SpawnError
    \/ ChildExit
    \/ \E msg \in Chunks : Stdout(msg)
    \/ Timeout

\* A timer that was set and not cleared fires.
SpecBoot == HostInit /\ [][BootNext]_vars /\ WF_vars(Timeout)

(***************************************************************************)
(* Part IV. Properties of startUplinkPty                                   *)
(***************************************************************************)

\* The first of the events that decide the call is a stdout chunk that
\* holds 'listening': it came before the timeout and before any error.
ListeningFirst ==
    \E i \in DOMAIN boot.events :
        /\ boot.events[i].kind = "stdout"
        /\ includesListening(boot.events[i].msg)
        /\ \A j \in 1..(i - 1) : boot.events[j].kind \notin {"timeout", "error"}

\* C39: startUplinkPty settles exactly once: a call that is pending is
\* settled in the end and a settled call stays as it is; it is resolved
\* only if a chunk with 'listening' came before the timeout and before any
\* spawn error, and rejected otherwise; a chunk that comes after the
\* timeout or after an error changes neither the promise nor the timer.
C39_SettlesOnce ==
    /\ [](boot.promise = "resolved" => ListeningFirst)
    /\ [](boot.promise = "rejected" => ~ListeningFirst)
    /\ [][ /\ boot.promise \in {"resolved", "rejected"} => boot'.promise = boot.promise
           /\ (boot.promise = "rejected" /\ \E msg \in Chunks : Stdout(msg)) =>
                 boot'.timeoutId = boot.timeoutId ]_vars
    /\ (boot.promise = "pending") ~> (boot.promise \in {"resolved", "rejected"})

\* The timeout fired, the call was rejected, and the child printed
\* 'listening' afterwards.
C39_Witness ==
    /\ boot.promise = "rejected"
    /\ Len(boot.events) = 2
    /\ boot.events[1].kind = "timeout"
    /\ boot.events[2] = [kind |-> "stdout", msg |-> <<"uplink-pty", "listening">>]
    /\ boot.timeoutId = "null"

====
